---- MODULE Spec2Model ----
(***************************************************************************)
(* Model of the MWI-Moonitoring event pipeline                             *)
(* (src/mwi-moonitoring-library.js): EventEmitter, PerformanceMonitor,     *)
(* EventDiscovery, MessageQueue and WebSocketHookManager.                  *)
(*                                                                         *)
(* JavaScript runs one handler at a time, so every action below is one     *)
(* whole turn or one whole public call.  Handlers are written as operators *)
(* on a state record S (one field per variable) and return the record the  *)
(* handler leaves behind; an action applies one of them to the current     *)
(* state.  Strings that the code inspects character by character (event    *)
(* types, subscription keys) are sequences of one-character strings.       *)
(***************************************************************************)
EXTENDS Integers, Sequences, FiniteSets, TLC

VARIABLES
    config,        \* WebSocketHookManager.config (shared with emitter, discovery, queue)
    events,        \* EventEmitter.events : Map key -> Set of listeners, in insertion order
    onceEvents,    \* EventEmitter.onceEvents : Set of once-wrappers
    deferred,      \* pending setTimeout(..., 0) callbacks, in scheduling order
    eventHistory,  \* WebSocketHookManager.eventHistory
    eventCache,    \* WebSocketHookManager.eventCache : Map type -> envelope, insertion order
    queue,         \* MessageQueue.queue
    timer,         \* MessageQueue.timer
    timeouts,      \* the live timeouts created for the queue: neither fired nor cleared
    processing,    \* MessageQueue.processing
    metrics,       \* PerformanceMonitor.metrics
    discovery,     \* EventDiscovery : isDiscovering and discoveries
    discoverCall,  \* the discover() call awaiting its window, with the window's timer
    pending,       \* messages read through the hook whose deferred intake has not run
    isHooked,      \* WebSocketHookManager.isHooked : hookedGet is the getter of MessageEvent.prototype.data
    autoHookInstalled, \* the flag of ensureHook
    messageEvents, \* the MessageEvent objects dispatched so far, with what their readers got
    active,        \* Instance Registry: the identifiers of the registered pipeline instances
    instances,     \* the pipeline instance of each identifier
    mutated,       \* the data objects a listener has written to, by identity
    current,       \* the identity of the data object the running emit or listener turn holds
    wiring,        \* the configuration record and the Logger each component holds
    solo,          \* the pipeline of consumer 1 in the run where no other consumer configures
    nextId,        \* identity of the next envelope object
    nextWrapper,   \* identity of the next once-wrapper closure
    accepted,      \* log: envelopes created by intake, in order
    handed,        \* log: envelopes passed to the processor, in order
    discarded,     \* log: identities of envelopes dropped from the queue by clear()
    onceCalls,     \* log: per once-wrapper, the number of calls of its callback
    emits,         \* log: number of emit calls so far
    emissions,     \* log: one record per emit call of the last turn or call
    invoked,       \* log: the listener calls of the last turn or call
    registered,    \* log: the (key, listener) pairs asked for by on() and not removed since
    received,      \* log: the raw messages given to intake by the last turn
    settled,       \* log: the discover() promises settled by the last turn or call
    destroyed,     \* log: destroy() has returned
    lastOp         \* log: the kind of turn that produced the current state

vars == <<config, events, onceEvents, deferred, eventHistory, eventCache, queue,
          timer, processing, metrics, discovery, discoverCall, pending, nextId,
          nextWrapper, accepted, handed, discarded, onceCalls, emits, emissions, invoked,
          registered, received, settled, destroyed, lastOp, isHooked,
          autoHookInstalled, messageEvents, active, instances, solo, timeouts,
          wiring, mutated, current>>

(***************************************************************************)
(* Bounds of the model                                                     *)
(***************************************************************************)
\* number of raw messages delivered to intake
MaxMessages == 3
\* number of public emit() calls
MaxEmits == 1
\* number of once() registrations
MaxOnce == 1
\* number of listener registrations held at a time
MaxListeners == 2
\* number of raw payloads forwarded to the registered instances
MaxPayloads == 2
\* number of listeners an instance registers
MaxSubscriptions == 1
\* number of reads of the data of one MessageEvent
MaxReads == 2
\* number of messages dropped by the filters
MaxDropped == 2
\* number of messages delivered to intake where the capacities are exercised
MaxStored == 4

(***************************************************************************)
(* Input alphabets                                                         *)
(***************************************************************************)
TypeA == <<"a">>
TypeB == <<"b">>
TypeC == <<"c">>
Types == {TypeA, TypeB}

KeyAStar == <<"a", "*">>
KeyDotStar == <<".", "*">>
KeyParenStar == <<"(", "*">>

\* user callbacks; "bad" throws whenever it is called
Callbacks == {"f", "bad"}
Throws(cb) == cb = "bad"

\* the callback "mut" assigns to the payload of the data object it is given
Mutates(cb) == cb = "mut"
Mutated(data) == [data EXCEPT !.payload = "mutated"]

\* A data object is known by its identity: the envelope identity for the
\* object JSON.parse made for an envelope, a negative number for the object
\* a caller of the public emit passed, and 0 where no emit or listener runs.

Payloads == {"x", "y"}

NoKey == <<>>

(***************************************************************************)
(* Generic helpers                                                         *)
(***************************************************************************)
Range(s) == {s[i] : i \in 1..Len(s)}

Contains(s, x) == \E i \in 1..Len(s) : s[i] = x

\* s without the elements equal to x
Without(s, x) == SelectSeq(s, LAMBDA y : y # x)
RemoveAt(s, i) == SubSeq(s, 1, i - 1) \o SubSeq(s, i + 1, Len(s))

RECURSIVE Dedupe(_)
\* insertion-ordered Set built by adding the elements of s in order
Dedupe(s) ==
    IF s = <<>> THEN <<>>
    ELSE LET d == Dedupe(SubSeq(s, 1, Len(s) - 1))
             x == s[Len(s)]
         IN  IF Contains(d, x) THEN d ELSE Append(d, x)

Count(s, P(_)) == Cardinality({i \in 1..Len(s) : P(s[i])})

Min(a, b) == IF a < b THEN a ELSE b

(***************************************************************************)
(* Configuration                                                           *)
(***************************************************************************)
DEFAULT_CONFIG ==
    [ enableBatching       |-> TRUE,
      batchInterval        |-> 100,
      maxBatchSize         |-> 50,
      preParsing           |-> TRUE,
      eventWhitelist       |-> {},
      eventBlacklist       |-> {},
      enableDiscovery      |-> FALSE,
      discoveryLimit       |-> 100,
      debug                |-> FALSE,
      logLevel             |-> "warn",
      historySize          |-> 50,
      enableCache          |-> TRUE,
      cacheSize            |-> 100,
      errorHandling        |-> "isolate",
      maxListenersPerEvent |-> 100 ]

\* { ...this.config, ...options }
Merge(cfg, options) ==
    [k \in DOMAIN cfg |-> IF k \in DOMAIN options THEN options[k] ELSE cfg[k]]

(***************************************************************************)
(* Logger.  A Logger is the configuration record it was constructed with;  *)
(* a configuration record is never modified after configure has replaced   *)
(* it, so a record stands for the object.                                  *)
(***************************************************************************)
\* new Logger(config)
Logger(cfg) == [config |-> cfg]

\* this.levels
levels == [error |-> 0, warn |-> 1, info |-> 2, debug |-> 3]

\* Logger._shouldLog(level)
shouldLog(logger, level) ==
    IF ~logger.config.debug THEN FALSE
    ELSE levels[level] <= levels[logger.config.logLevel]

\* the constructor of WebSocketHookManager: one record, one Logger handed
\* to the emitter and the recorder, and a Logger of its own for the queue
\* made by queue.updateConfig(this.config)
Wired(cfg) ==
    [ manager   |-> [logger |-> Logger(cfg)],
      emitter   |-> [config |-> cfg, logger |-> Logger(cfg)],
      discovery |-> [config |-> cfg, logger |-> Logger(cfg)],
      queue     |-> [config |-> cfg, logger |-> Logger(cfg)] ]

(***************************************************************************)
(* utils.matchesPattern                                                    *)
(***************************************************************************)
\* new RegExp(...) throws a SyntaxError for a pattern with an unterminated group
RegexCompiles(pattern) == ~Contains(pattern, "(")

RECURSIVE RegexTest(_, _)
\* /^...$/.test(str) for the regular expression built from pattern, where
\* "*" has become ".*" and every other character is passed to RegExp as is
RegexTest(str, pattern) ==
    IF pattern = <<>> THEN str = <<>>
    ELSE IF Head(pattern) = "*"
         THEN \E i \in 0..Len(str) : RegexTest(SubSeq(str, i + 1, Len(str)), Tail(pattern))
    ELSE IF Head(pattern) = "."
         THEN str # <<>> /\ RegexTest(Tail(str), Tail(pattern))
    ELSE str # <<>> /\ Head(str) = Head(pattern) /\ RegexTest(Tail(str), Tail(pattern))

\* result "true" / "false", or "throw" when RegExp construction fails
matchesPattern(str, pattern) ==
    IF ~Contains(pattern, "*")
    THEN (IF str = pattern THEN "true" ELSE "false")
    ELSE IF ~RegexCompiles(pattern) THEN "throw"
    ELSE IF RegexTest(str, pattern) THEN "true" ELSE "false"

(***************************************************************************)
(* Listeners                                                               *)
(***************************************************************************)
\* a callback passed to on() by the user
Plain(cb) == [kind |-> "cb", cb |-> cb, id |-> 0, keys |-> <<>>]

\* the listeners a caller holds: the callbacks themselves
PlainListeners == {Plain(c) : c \in Callbacks}

\* the wrapper closure created by once(eventType, callback)
Wrapper(id, keys, cb) == [kind |-> "once", cb |-> cb, id |-> id, keys |-> keys]

(***************************************************************************)
(* EventEmitter                                                            *)
(***************************************************************************)
HasKey(evs, k) == \E i \in 1..Len(evs) : evs[i].key = k

KeyIndex(evs, k) == CHOOSE i \in 1..Len(evs) : evs[i].key = k

\* this.events.get(k), <<>> standing for undefined
GetListeners(evs, k) == IF HasKey(evs, k) THEN evs[KeyIndex(evs, k)].ls ELSE <<>>

\* this.events.delete(k)
DeleteKey(evs, k) == SelectSeq(evs, LAMBDA e : e.key # k)

\* on() whose listeners.add(callback) adds the callback even when it is present
onOneAppend(S, type, callback) ==
    LET evs1 == IF HasKey(S.events, type) THEN S.events
                ELSE Append(S.events, [key |-> type, ls |-> <<>>])
        i    == KeyIndex(evs1, type)
    IN  IF Len(evs1[i].ls) >= S.config.maxListenersPerEvent
        THEN [S EXCEPT !.events = evs1, !.registered = @ \cup {<<type, callback>>}]
        ELSE [S EXCEPT !.events = [evs1 EXCEPT ![i].ls = Append(@, callback)],
                       !.registered = @ \cup {<<type, callback>>}]

\* the body of types.forEach in on()
onOne(S, type, callback) ==
    LET evs1 == IF HasKey(S.events, type) THEN S.events
                ELSE Append(S.events, [key |-> type, ls |-> <<>>])
        i    == KeyIndex(evs1, type)
        ls   == evs1[i].ls
    IN  IF Len(ls) >= S.config.maxListenersPerEvent
        THEN [S EXCEPT !.events = evs1, !.registered = @ \cup {<<type, callback>>}]
        ELSE [S EXCEPT !.events =
                 [evs1 EXCEPT ![i].ls = IF Contains(ls, callback) THEN ls
                                        ELSE Append(ls, callback)],
                       !.registered = @ \cup {<<type, callback>>}]

RECURSIVE on(_, _, _)
\* on(eventTypes, callback), eventTypes given as the array of keys
on(S, eventTypes, callback) ==
    IF eventTypes = <<>> THEN S
    ELSE on(onOne(S, Head(eventTypes), callback), Tail(eventTypes), callback)

\* the body of types.forEach in off()
offOne(S, type, callback) ==
    IF ~HasKey(S.events, type) THEN [S EXCEPT !.registered = @ \ {<<type, callback>>}]
    ELSE LET i  == KeyIndex(S.events, type)
             ls == Without(S.events[i].ls, callback)
         IN  IF Len(ls) = 0
             THEN [S EXCEPT !.events = DeleteKey(S.events, type),
                            !.registered = @ \ {<<type, callback>>}]
             ELSE [S EXCEPT !.events = [S.events EXCEPT ![i].ls = ls],
                            !.registered = @ \ {<<type, callback>>}]

RECURSIVE off(_, _, _)
off(S, eventTypes, callback) ==
    IF eventTypes = <<>> THEN S
    ELSE off(offOne(S, Head(eventTypes), callback), Tail(eventTypes), callback)

\* offAll(eventType); NoKey stands for a missing (falsy) argument
offAll(S, eventType) ==
    IF eventType # NoKey
    THEN [S EXCEPT !.events = DeleteKey(S.events, eventType),
                   !.registered = {r \in @ : r[1] # eventType}]
    ELSE [S EXCEPT !.events = <<>>, !.onceEvents = {}, !.registered = {}]

\* once(eventType, callback): a fresh wrapper is remembered and registered
once(S, eventTypes, callback) ==
    on([S EXCEPT !.onceEvents = @ \cup {Wrapper(S.nextWrapper, eventTypes, callback)},
                 !.nextWrapper = @ + 1,
                 !.onceCalls = Append(@, 0)],
       eventTypes, Wrapper(S.nextWrapper, eventTypes, callback))

\* eventNames(), returned by MWIWebSocket.getEventTypes()
eventNames(S) == [i \in 1..Len(S.events) |-> S.events[i].key]

\* listenerCount(eventType)
RECURSIVE SumSizes(_)
SumSizes(evs) == IF evs = <<>> THEN 0 ELSE Len(Head(evs).ls) + SumSizes(Tail(evs))

listenerCount(S, eventType) ==
    IF eventType = NoKey THEN SumSizes(S.events)
    ELSE Len(GetListeners(S.events, eventType))

\* what a reader of the data object finds in it now, data being its content
\* when it was created
Seen(S, data) == IF S.current \in S.mutated THEN Mutated(data) ELSE data

\* the scope that held the data object has ended
leave(S) == [S EXCEPT !.current = 0]

\* the state after a call of listener has been logged; raised: the call threw
Call(S, listener, eventType, data, isDeferred) ==
    [st |-> [S EXCEPT !.invoked = Append(@, [listener |-> listener, type |-> eventType,
                                             data |-> Seen(S, data), ref |-> S.current]),
                      !.mutated = IF Mutates(listener.cb) THEN @ \cup {S.current} ELSE @,
                      !.onceCalls = IF listener.kind = "once"
                                    THEN [@ EXCEPT ![listener.id] = @ + 1] ELSE @,
                      !.emissions = IF isDeferred THEN @
                                    ELSE [@ EXCEPT ![Len(@)].called = Append(@, listener)]],
     raised |-> Throws(listener.cb)]

\* one listener call: listener(eventType, data).  A once-wrapper first removes
\* itself, then calls the wrapped callback.
invoke(S, listener, eventType, data, isDeferred) ==
    Call(IF listener.kind = "once" THEN off(S, listener.keys, listener) ELSE S,
         listener, eventType, data, isDeferred)

\* setTimeout(() => { try { listener(eventType, data) } catch ... }, 0)
Schedule(S, listener, eventType, data) ==
    [S EXCEPT !.deferred = Append(@, [listener |-> listener, type |-> eventType,
                                      data |-> data, ref |-> S.current]),
              !.emissions[Len(S.emissions)].scheduled = Append(@, listener)]

\* isolate mode without the setTimeout: the listener is called inside emit
deliverByModeInline(S, listener, eventType, data) ==
    IF S.config.errorHandling = "isolate" \/ S.config.errorHandling = "suppress"
    THEN [st |-> invoke(S, listener, eventType, data, FALSE).st, raised |-> FALSE]
    ELSE invoke(S, listener, eventType, data, FALSE)

\* every mode other than propagate treated as isolate: suppress defers as well
deliverByModeDefer(S, listener, eventType, data) ==
    IF S.config.errorHandling # "propagate"
    THEN [st |-> Schedule(S, listener, eventType, data), raised |-> FALSE]
    ELSE invoke(S, listener, eventType, data, FALSE)

\* the if / else-if / else inside the try block of listeners.forEach
deliverByMode(S, listener, eventType, data) ==
    IF S.config.errorHandling = "isolate"
    THEN [st |-> Schedule(S, listener, eventType, data), raised |-> FALSE]
    ELSE IF S.config.errorHandling = "suppress"
    THEN [st |-> invoke(S, listener, eventType, data, FALSE).st, raised |-> FALSE]
    ELSE invoke(S, listener, eventType, data, FALSE)

\* the callback of listeners.forEach: the try block and its catch
\* ("Fatal error in listener"), which swallows whatever the block raised
deliver(S, listener, eventType, data) ==
    [st |-> deliverByMode(S, listener, eventType, data).st, raised |-> FALSE]

RECURSIVE forEachListener(_, _, _, _)
RECURSIVE nextListener(_, _, _, _)
\* listeners.forEach(...): stops at the first callback that raises
forEachListener(S, listeners, eventType, data) ==
    IF listeners = <<>> THEN [st |-> S, raised |-> FALSE]
    ELSE nextListener(deliver(S, Head(listeners), eventType, data),
                      Tail(listeners), eventType, data)

\* r is what the callback left for the rest of the iteration
nextListener(r, listeners, eventType, data) ==
    IF r.raised THEN r ELSE forEachListener(r.st, listeners, eventType, data)

\* the keys visited by this.events.forEach whose test reaches matchesPattern
WildcardKeys(evs) == SelectSeq(evs, LAMBDA e : Contains(e.key, "*"))

RECURSIVE Flatten(_)
Flatten(ss) == IF ss = <<>> THEN <<>> ELSE Head(ss) \o Flatten(Tail(ss))

\* the local Set "listeners" of emit, in insertion order
CollectListeners(evs, eventType) ==
    LET direct == GetListeners(evs, eventType)
        wild   == SelectSeq(WildcardKeys(evs),
                            LAMBDA e : matchesPattern(eventType, e.key) = "true")
    IN  Dedupe(direct \o Flatten([i \in 1..Len(wild) |-> wild[i].ls]))

\* building the regular expression of some wildcard key throws
MatchThrows(evs, eventType) ==
    \E i \in 1..Len(evs) :
        Contains(evs[i].key, "*") /\ matchesPattern(eventType, evs[i].key) = "throw"

RECURSIVE PatternTests(_, _)
\* the calls of utils.matchesPattern made by this.events.forEach, with their
\* results, up to the first one that throws
testsFrom(test, rest, eventType) ==
    IF test.result = "throw" THEN <<test>> ELSE <<test>> \o PatternTests(rest, eventType)

PatternTests(wild, eventType) ==
    IF wild = <<>> THEN <<>>
    ELSE testsFrom([key |-> Head(wild).key,
                    result |-> matchesPattern(eventType, Head(wild).key)],
                   Tail(wild), eventType)

\* the identity of the last entry of the history, 0 for an empty history
Newest(history) == IF history = <<>> THEN 0 ELSE history[Len(history)].id

\* the identity of this.eventCache.get(type), 0 for undefined
CachedId(cache, type) ==
    IF \E i \in 1..Len(cache) : cache[i].type = type
    THEN cache[CHOOSE i \in 1..Len(cache) : cache[i].type = type].msg.id
    ELSE 0

\* the log entry of an emit call that matched listeners
Emission(S, eventType, data, source, listeners, failed) ==
    [type |-> eventType, data |-> data, source |-> source,
     mode |-> S.config.errorHandling, registry |-> S.events, matched |-> listeners,
     tests |-> PatternTests(WildcardKeys(S.events), eventType),
     envelope |-> S.current, newest |-> Newest(S.eventHistory),
     cached |-> CachedId(S.eventCache, eventType),
     called |-> <<>>, scheduled |-> <<>>,
     ret |-> IF failed THEN -1 ELSE Len(listeners), threw |-> failed]

\* what emit hands back once listeners.forEach has ended with r
emitResult(r, listeners) ==
    IF r.raised
    THEN [st |-> [r.st EXCEPT !.emissions[Len(r.st.emissions)].threw = TRUE,
                              !.emissions[Len(r.st.emissions)].ret = -1],
          ret |-> -1, threw |-> TRUE]
    ELSE [st |-> r.st, ret |-> Len(listeners), threw |-> FALSE]

\* emit after the listeners have been collected
emitTo(S, eventType, data, source, listeners) ==
    emitResult(forEachListener(
                   [S EXCEPT !.emits = @ + 1,
                             !.emissions = Append(@, Emission(S, eventType, data, source,
                                                              listeners, FALSE))],
                   listeners, eventType, data),
               listeners)

\* emit(eventType, data): st is the state left behind, ret the returned count,
\* threw tells whether an exception left emit.  S.emissions gets one record per
\* emit call of the running handler.
emit(S, eventType, data, source) ==
    IF MatchThrows(S.events, eventType)
    THEN [st |-> [S EXCEPT !.emits = @ + 1,
                           !.emissions = Append(@, Emission(S, eventType, data, source,
                                                            <<>>, TRUE))],
          ret |-> -1, threw |-> TRUE]
    ELSE emitTo(S, eventType, data, source, CollectListeners(S.events, eventType))

\* the setTimeout callback created by emit in isolate mode: try / catch
runIsolated(S, task) ==
    leave(invoke([S EXCEPT !.current = task.ref], task.listener, task.type, task.data,
                 TRUE).st)

(***************************************************************************)
(* PerformanceMonitor (processing-time samples are not modelled)           *)
(***************************************************************************)
EmptyMetrics == [totalEvents |-> 0, eventsPerType |-> <<>>, droppedEvents |-> 0, errors |-> 0]

recordEvent(S, eventType) ==
    LET per == S.metrics.eventsPerType
        has == \E i \in 1..Len(per) : per[i].type = eventType
        per1 == IF has
                THEN [i \in 1..Len(per) |-> IF per[i].type = eventType
                                            THEN [per[i] EXCEPT !.count = @ + 1] ELSE per[i]]
                ELSE Append(per, [type |-> eventType, count |-> 1])
    IN  [S EXCEPT !.metrics.totalEvents = @ + 1, !.metrics.eventsPerType = per1]

recordError(S) == [S EXCEPT !.metrics.errors = @ + 1]

recordDropped(S) == [S EXCEPT !.metrics.droppedEvents = @ + 1]

reset(S) == [S EXCEPT !.metrics = EmptyMetrics]

(***************************************************************************)
(* EventDiscovery.record                                                   *)
(***************************************************************************)
record(S, eventType, data) ==
    LET ds  == S.discovery.discoveries
        has == \E i \in 1..Len(ds) : ds[i].type = eventType
        ds1 == IF has THEN ds
               ELSE Append(ds, [type |-> eventType, count |-> 0, samples |-> <<>>])
        ds2 == [i \in 1..Len(ds1) |->
                   IF ds1[i].type = eventType
                   THEN [ds1[i] EXCEPT !.count = @ + 1,
                                       !.samples = IF Len(@) < 3 THEN Append(@, data) ELSE @]
                   ELSE ds1[i]]
    IN  IF ~S.discovery.isDiscovering THEN S
        ELSE IF Len(ds) >= S.config.discoveryLimit THEN S
        ELSE [S EXCEPT !.discovery.discoveries = ds2]

(***************************************************************************)
(* WebSocketHookManager.processBatch                                       *)
(***************************************************************************)
\* this.eventCache.set(type, msg): an existing key keeps its position
CacheSet(cache, type, msg) ==
    IF \E i \in 1..Len(cache) : cache[i].type = type
    THEN [i \in 1..Len(cache) |-> IF cache[i].type = type
                                  THEN [type |-> type, msg |-> msg] ELSE cache[i]]
    ELSE Append(cache, [type |-> type, msg |-> msg])

\* a full history that keeps what it has and leaves the new envelope out
pushHistoryKeepsOldest(history, historySize, msg) ==
    IF Len(history) >= historySize THEN history ELSE Append(history, msg)

\* "Add to history": one shift() when the history is full, then push(msg)
pushHistory(history, historySize, msg) ==
    Append(IF Len(history) >= historySize
           THEN (IF history = <<>> THEN <<>> ELSE Tail(history)) ELSE history, msg)

\* a cache whose set() moves the type that is updated behind all other types
cacheLimitedByUse(cache, cacheSize, msg) ==
    IF Len(Append(SelectSeq(cache, LAMBDA e : e.type # msg.type),
                  [type |-> msg.type, msg |-> msg])) > cacheSize
    THEN Tail(Append(SelectSeq(cache, LAMBDA e : e.type # msg.type),
                     [type |-> msg.type, msg |-> msg]))
    ELSE Append(SelectSeq(cache, LAMBDA e : e.type # msg.type),
                [type |-> msg.type, msg |-> msg])

\* "Cache management" with caching enabled: set(), then the first key is
\* deleted when the cache has grown beyond cacheSize
cacheLimited(cache, cacheSize, msg) ==
    IF Len(CacheSet(cache, msg.type, msg)) > cacheSize
    THEN Tail(CacheSet(cache, msg.type, msg))
    ELSE CacheSet(cache, msg.type, msg)

\* the history and cache updates of processBatch for one message
store(S, msg) ==
    [S EXCEPT !.eventHistory = pushHistory(@, S.config.historySize, msg),
              !.eventCache = IF ~S.config.enableCache THEN @
                             ELSE cacheLimited(@, S.config.cacheSize, msg)]

\* the catch of processBatch's try block, r being what emit handed back
catchOne(r) == IF r.threw THEN recordError(r.st) ELSE r.st

\* the body of messages.forEach in processBatch: the try block and its catch
processOne(S, msg) ==
    leave(catchOne(emit([store(S, msg) EXCEPT !.current = msg.id], msg.type, msg.data,
                        "pipeline")))

RECURSIVE forEachMessageAborts(_, _)
\* messages.forEach with the try block around the whole loop: the first
\* envelope whose handling raises is counted and ends the batch
forEachMessageAborts(S, messages) ==
    IF messages = <<>> THEN S
    ELSE IF MatchThrows(S.events, Head(messages).type) THEN processOne(S, Head(messages))
    ELSE forEachMessageAborts(processOne(S, Head(messages)), Tail(messages))

RECURSIVE forEachMessage(_, _)
forEachMessage(S, messages) ==
    IF messages = <<>> THEN S
    ELSE forEachMessage(processOne(S, Head(messages)), Tail(messages))

processBatch(S, messages) ==
    forEachMessage([S EXCEPT !.handed = @ \o messages], messages)

(***************************************************************************)
(* MessageQueue                                                            *)
(***************************************************************************)
NoTimer == [armed |-> FALSE, interval |-> 0]

\* setTimeout(() => this.flush(), interval)
Armed(interval) == [armed |-> TRUE, interval |-> interval]

\* a live timeout: its delay, whether this.timer refers to it, and the
\* method whose setTimeout call created it
Timeout(interval, by) == [interval |-> interval, current |-> TRUE, by |-> by]

\* this.timer = setTimeout(() => this.flush(), interval): a timeout that
\* this.timer referred to before stays live but is no longer referred to
setTimer(S, interval, by) ==
    [S EXCEPT !.timer = Armed(interval),
              !.timeouts = Append([i \in 1..Len(S.timeouts) |->
                                      [S.timeouts[i] EXCEPT !.current = FALSE]],
                                  Timeout(interval, by))]

\* clearTimeout(this.timer): without effect on a timeout that has fired
clearTimeout(S) ==
    IF ~S.timer.armed THEN S
    ELSE [S EXCEPT !.timeouts = SelectSeq(@, LAMBDA t : ~t.current)]

\* the number of elements removed by Array.prototype.splice(0, n)
SpliceCount(len, n) == IF n < 0 THEN 0 ELSE Min(len, n)

\* the batch taken by this.queue.splice(0, this.config.maxBatchSize)
Batch(S) == SubSeq(S.queue, 1, SpliceCount(Len(S.queue), S.config.maxBatchSize))

\* flush up to the call of the processor: flag set, timer cleared, batch removed
takeBatch(S) ==
    [clearTimeout(S) EXCEPT
        !.processing = TRUE, !.timer = NoTimer,
        !.queue = SubSeq(@, SpliceCount(Len(@), S.config.maxBatchSize) + 1, Len(@))]

\* a finally block that does not schedule the next batch
finishFlushNoTimer(S) == [S EXCEPT !.processing = FALSE]

\* the finally block of flush
finishFlush(S) ==
    IF Len(S.queue) > 0 /\ ~S.timer.armed
    THEN setTimer([S EXCEPT !.processing = FALSE], S.config.batchInterval, "flush")
    ELSE [S EXCEPT !.processing = FALSE]

\* flush without the test of this.processing
flushUnguarded(S) ==
    IF Len(S.queue) = 0 THEN S
    ELSE finishFlush(processBatch(takeBatch(S), Batch(S)))

\* flush that reads the batch with slice instead of splice: the batch stays queued
flushKeepsBatch(S) ==
    IF S.processing \/ Len(S.queue) = 0 THEN S
    ELSE finishFlush(processBatch([clearTimeout(S) EXCEPT !.processing = TRUE,
                                                          !.timer = NoTimer],
                                  Batch(S)))

flush(S) ==
    IF S.processing \/ Len(S.queue) = 0 THEN S
    ELSE finishFlush(processBatch(takeBatch(S), Batch(S)))

\* a flush during which flush() is called again, after the processor has
\* handled the batch and before the finally block runs
flushReentered(S) ==
    IF S.processing \/ Len(S.queue) = 0 THEN S
    ELSE finishFlush(flush(processBatch(takeBatch(S), Batch(S))))

\* add that queues the message without looking after the timer
enqueueUnarmed(S, message) == [S EXCEPT !.queue = Append(@, message)]

\* add up to the size test: the message is queued and the timer armed if it was not
enqueue(S, message) ==
    IF ~S.timer.armed
    THEN setTimer([S EXCEPT !.queue = Append(@, message)], S.config.batchInterval, "add")
    ELSE [S EXCEPT !.queue = Append(@, message)]

\* the size test at the end of add
flushIfFull(S) == IF Len(S.queue) >= S.config.maxBatchSize THEN flush(S) ELSE S

add(S, message) ==
    IF ~S.config.enableBatching THEN processBatch(S, <<message>>)
    ELSE flushIfFull(enqueue(S, message))

\* the first two statements of updateConfig: this.config = newConfig and
\* this.logger = new Logger(this.config)
setQueueConfig(S, newConfig) ==
    [S EXCEPT !.config = newConfig,
              !.wiring.queue = [config |-> newConfig, logger |-> Logger(newConfig)]]

\* updateConfig that sets the new timer without clearTimeout
updateConfigNoClear(S, newConfig) ==
    IF S.wiring.queue.config.batchInterval # newConfig.batchInterval /\ S.timer.armed
    THEN setTimer(setQueueConfig(S, newConfig), newConfig.batchInterval, "updateConfig")
    ELSE setQueueConfig(S, newConfig)

\* MessageQueue.updateConfig
updateConfig(S, newConfig) ==
    IF S.wiring.queue.config.batchInterval # newConfig.batchInterval /\ S.timer.armed
    THEN setTimer(clearTimeout(setQueueConfig(S, newConfig)),
                  newConfig.batchInterval, "updateConfig")
    ELSE setQueueConfig(S, newConfig)

\* MessageQueue.clear
queueClear(S) ==
    [clearTimeout(S) EXCEPT !.discarded = @ \cup {S.queue[i].id : i \in 1..Len(S.queue)},
                            !.queue = <<>>, !.timer = NoTimer]

(***************************************************************************)
(* WebSocketHookManager                                                    *)
(***************************************************************************)
\* A raw message is described by what processMessage looks at: whether it is
\* a string, its length, its first character, whether its text contains the
\* literal "type" in quotes, and what JSON.parse makes of it.
NoData == [hasType |-> FALSE, type |-> <<>>, payload |-> ""]

Raw(isString, len, first, hasLit, parses, data) ==
    [isString |-> isString, len |-> len, first |-> first, hasTypeLiteral |-> hasLit,
     parses |-> parses, data |-> data]

\* the text {"type":"<t>","payload":"<p>"}
TypedMessage(t, p) ==
    Raw(TRUE, 20, "{", TRUE, TRUE, [hasType |-> TRUE, type |-> t, payload |-> p])

\* the well-formed messages the socket delivers: every type with every
\* payload, every type with payload "x", and the one message of TypeA
TypedMessages == {TypedMessage(t, p) : t \in Types, p \in Payloads}
MessagesX == {TypedMessage(t, "x") : t \in Types}
MessagesAX == {TypedMessage(TypeA, "x")}

\* the discovery step of processMessage
recordIfDiscovering(S, data) ==
    IF S.config.enableDiscovery \/ S.discovery.isDiscovering
    THEN record(S, data.type, data) ELSE S

\* the envelope object built by processMessage
Envelope(S, data) == [type |-> data.type, data |-> data, id |-> S.nextId]

\* processMessage from queue.add on, for a message that passed the filters
accept(S, data) ==
    recordEvent(
        recordIfDiscovering(
            add([S EXCEPT !.nextId = @ + 1, !.accepted = Append(@, Envelope(S, data))],
                Envelope(S, data)),
            data),
        data.type)

\* processMessage whose blacklist branch lacks its return: a blacklisted type
\* goes on to the whitelist check
processMessageFallsThrough(S, message) ==
    IF ~message.isString \/ message.len < 2 THEN S
    ELSE IF message.first # "{" /\ message.first # "[" THEN S
    ELSE IF S.config.preParsing /\ ~message.hasTypeLiteral THEN S
    ELSE IF ~message.parses \/ ~message.data.hasType THEN S
    ELSE IF S.config.eventWhitelist # {} /\ message.data.type \notin S.config.eventWhitelist
         THEN recordDropped(IF message.data.type \in S.config.eventBlacklist
                            THEN recordDropped(S) ELSE S)
    ELSE IF message.data.type \in S.config.eventBlacklist THEN recordDropped(S)
    ELSE accept(S, message.data)

\* processMessage that counts a message JSON.parse rejects, or one without a
\* type, as dropped
processMessageCountsUntyped(S, message) ==
    IF ~message.isString \/ message.len < 2 THEN S
    ELSE IF message.first # "{" /\ message.first # "[" THEN S
    ELSE IF S.config.preParsing /\ ~message.hasTypeLiteral THEN S
    ELSE IF ~message.parses \/ ~message.data.hasType THEN recordDropped(S)
    ELSE IF message.data.type \in S.config.eventBlacklist THEN recordDropped(S)
    ELSE IF S.config.eventWhitelist # {} /\ message.data.type \notin S.config.eventWhitelist
         THEN recordDropped(S)
    ELSE accept(S, message.data)

processMessage(S, message) ==
    IF ~message.isString \/ message.len < 2 THEN S
    ELSE IF message.first # "{" /\ message.first # "[" THEN S
    ELSE IF S.config.preParsing /\ ~message.hasTypeLiteral THEN S
    ELSE IF ~message.parses \/ ~message.data.hasType THEN S
    ELSE IF message.data.type \in S.config.eventBlacklist THEN recordDropped(S)
    ELSE IF S.config.eventWhitelist # {} /\ message.data.type \notin S.config.eventWhitelist
         THEN recordDropped(S)
    ELSE accept(S, message.data)

\* getEventHistory(limit); 0 stands for a missing (falsy) limit
getEventHistory(S, limit) ==
    IF limit # 0
    THEN SubSeq(S.eventHistory,
                IF Len(S.eventHistory) > limit THEN Len(S.eventHistory) - limit + 1 ELSE 1,
                Len(S.eventHistory))
    ELSE S.eventHistory

\* configure up to the call of queue.updateConfig: the manager gets a new
\* Logger, the emitter and the recorder get the new record
rewire(S, newConfig) ==
    [S EXCEPT !.wiring.manager.logger = Logger(newConfig),
              !.wiring.emitter.config = newConfig,
              !.wiring.discovery.config = newConfig]

\* WebSocketHookManager.configure; S.config is the record every component
\* reads its options from, which configure replaces in all of them
configure(S, options) ==
    updateConfig(rewire(S, Merge(S.config, options)), Merge(S.config, options))

\* clear() without its this.queue.clear() call
clearKeepsQueue(S) ==
    reset([S EXCEPT !.eventHistory = <<>>, !.eventCache = <<>>])

clear(S) ==
    reset(queueClear([S EXCEPT !.eventHistory = <<>>, !.eventCache = <<>>]))

(***************************************************************************)
(* The WebSocket hook.  A MessageEvent is a record of its message, whether *)
(* its socket is one of WS_ENDPOINTS, its own data property (empty until   *)
(* hookedGet defines it), the values its readers were returned, the number *)
(* of reads made while the hook was installed, and the number of deferred  *)
(* intakes scheduled for it.                                               *)
(***************************************************************************)
\* WebSocketHookManager.installHook: the getter is wrapped unless it already is
installHook(S) == IF S.isHooked THEN S ELSE [S EXCEPT !.isHooked = TRUE]

\* WebSocketHookManager.removeHook: the original getter is put back
removeHook(S) == IF ~S.isHooked THEN S ELSE [S EXCEPT !.isHooked = FALSE]

\* ensureHook, called by on, once, discover and waitForReady
ensureHook(S) ==
    IF S.autoHookInstalled THEN S
    ELSE [installHook(S) EXCEPT !.autoHookInstalled = TRUE]

\* MWIWebSocket.installHook
apiInstallHook(S) == [installHook(S) EXCEPT !.autoHookInstalled = TRUE]

\* MWIWebSocket.removeHook
apiRemoveHook(S) == [removeHook(S) EXCEPT !.autoHookInstalled = FALSE]

\* a MessageEvent as the browser dispatches it
MessageEvent(message, isMWISocket) ==
    [message |-> message, isMWISocket |-> isMWISocket, own |-> <<>>,
     returned |-> <<>>, hookedReads |-> 0, scheduled |-> 0]

\* self.originalGet.call(this): the native getter returns the message
originalGet(S, i) ==
    [S EXCEPT !.messageEvents[i].returned = Append(@, S.messageEvents[i].message)]

\* hookedGet that calls processMessage before it returns
hookedGetInline(S, i) ==
    IF ~S.messageEvents[i].isMWISocket THEN originalGet(S, i)
    ELSE processMessage([originalGet(S, i) EXCEPT
                             !.messageEvents[i].own = <<S.messageEvents[i].message>>,
                             !.messageEvents[i].scheduled = @ + 1],
                        S.messageEvents[i].message)

\* hookedGet that schedules the intake before it returns, without defining
\* the data property of the event
hookedGetEveryRead(S, i) ==
    IF ~S.messageEvents[i].isMWISocket THEN originalGet(S, i)
    ELSE [originalGet(S, i) EXCEPT !.messageEvents[i].scheduled = @ + 1,
                                   !.pending = Append(@, S.messageEvents[i].message)]

\* hookedGet: for a message of an MWI socket the data property is defined on
\* the event, the intake is deferred by setTimeout and the message returned
hookedGet(S, i) ==
    IF ~S.messageEvents[i].isMWISocket THEN originalGet(S, i)
    ELSE [originalGet(S, i) EXCEPT !.messageEvents[i].own = <<S.messageEvents[i].message>>,
                                   !.messageEvents[i].scheduled = @ + 1,
                                   !.pending = Append(@, S.messageEvents[i].message)]

\* event.data: the own property if the event has one, or else the getter of
\* MessageEvent.prototype
getter(S, i) ==
    IF S.messageEvents[i].own # <<>>
    THEN [S EXCEPT !.messageEvents[i].returned = Append(@, Head(S.messageEvents[i].own))]
    ELSE IF S.isHooked THEN hookedGet(S, i) ELSE originalGet(S, i)

\* a read of event.data, counted if the hook is installed when it is made
getData(S, i) ==
    [getter(S, i) EXCEPT !.messageEvents[i].hookedReads = @ + (IF S.isHooked THEN 1 ELSE 0)]

(***************************************************************************)
(* EventDiscovery.start / stop / getResults and MWIWebSocket.discover      *)
(***************************************************************************)
\* no discover() call is waiting and no window timer is armed; oldConfig is
\* the local of the waiting call, from the number of envelopes accepted when
\* its window opened
NoCall == [timer |-> FALSE, waiting |-> FALSE, oldConfig |-> FALSE, from |-> 0]

RECURSIVE InsertByCount(_, _)
\* d put behind every record whose count is not smaller
InsertByCount(sorted, d) ==
    IF sorted = <<>> THEN <<d>>
    ELSE IF Head(sorted).count >= d.count
         THEN <<Head(sorted)>> \o InsertByCount(Tail(sorted), d)
    ELSE <<d>> \o sorted

RECURSIVE getResults(_)
\* Array.from(discoveries.values()).sort((a, b) => b.count - a.count), a stable sort
getResults(ds) ==
    IF ds = <<>> THEN <<>>
    ELSE InsertByCount(getResults(SubSeq(ds, 1, Len(ds) - 1)), ds[Len(ds)])

\* the promise of a discover() call has settled
Settle(S, kind, results) ==
    [S EXCEPT !.settled = Append(@, [kind |-> kind, results |-> results,
                                     from |-> S.discoverCall.from,
                                     oldConfig |-> S.discoverCall.oldConfig])]

\* start() past its isDiscovering test: the window opens and its timer is armed
start(S, oldConfig) ==
    [S EXCEPT !.discovery.isDiscovering = TRUE,
              !.discovery.discoveries = <<>>,
              !.discoverCall = [timer |-> TRUE, waiting |-> TRUE, oldConfig |-> oldConfig,
                                from |-> Len(S.accepted)]]

\* discover() after its configure call: start() rejects when a window is open,
\* and the rejection ends discover() at its await
discoverStart(S, oldConfig) ==
    IF S.discovery.isDiscovering THEN Settle(S, "rejected", <<>>)
    ELSE start(S, oldConfig)

\* discover() that calls start() before it looks at isDiscovering
discoverRestarts(S) ==
    start(configure(ensureHook(S), [enableDiscovery |-> TRUE]), S.config.enableDiscovery)

\* MWIWebSocket.discover(duration) up to its await
discover(S) ==
    discoverStart(configure(ensureHook(S), [enableDiscovery |-> TRUE]),
                  S.config.enableDiscovery)

\* discover() resumed without its second configure call
resumeKeepsFlag(S, results) ==
    [Settle(S, "resolved", results) EXCEPT !.discoverCall = NoCall]

\* discover() resumed by discoveryResolve(results): the flag is put back and
\* the results are returned
resume(S, results) ==
    [Settle(configure(S, [enableDiscovery |-> S.discoverCall.oldConfig]),
            "resolved", results)
        EXCEPT !.discoverCall = NoCall]

\* EventDiscovery.stop, called by the window timer
stop(S) ==
    IF ~S.discovery.isDiscovering THEN S
    ELSE resume([S EXCEPT !.discovery.isDiscovering = FALSE],
                getResults(S.discovery.discoveries))

\* MWIWebSocket.destroy: removeHook, emitter.offAll(), manager.clear()
destroy(S) ==
    [clear(offAll(removeHook(S), NoKey)) EXCEPT !.autoHookInstalled = FALSE,
                                                !.destroyed = TRUE]

(***************************************************************************)
(* State, initial state and actions                                        *)
(***************************************************************************)
St ==
    [ config |-> config, events |-> events, onceEvents |-> onceEvents,
      deferred |-> deferred, eventHistory |-> eventHistory, eventCache |-> eventCache,
      queue |-> queue, timer |-> timer, processing |-> processing, metrics |-> metrics,
      discovery |-> discovery, nextId |-> nextId, nextWrapper |-> nextWrapper,
      accepted |-> accepted, handed |-> handed, discarded |-> discarded, onceCalls |-> onceCalls,
      emits |-> emits, emissions |-> emissions, invoked |-> invoked, lastOp |-> lastOp,
      discoverCall |-> discoverCall, pending |-> pending, registered |-> registered,
      received |-> received, settled |-> settled, destroyed |-> destroyed,
      isHooked |-> isHooked, autoHookInstalled |-> autoHookInstalled,
      messageEvents |-> messageEvents, timeouts |-> timeouts, wiring |-> wiring,
      mutated |-> mutated, current |-> current ]

\* a pipeline at the start of a handler: the logs of the last turn are empty
BeginOf(S) == [S EXCEPT !.emissions = <<>>, !.invoked = <<>>, !.received = <<>>,
                        !.settled = <<>>]

Begin == BeginOf(St)

\* a turn of the given kind has run and left S behind in the shared pipeline
Assign(S, turn) ==
    /\ config' = S.config
    /\ events' = S.events
    /\ onceEvents' = S.onceEvents
    /\ deferred' = S.deferred
    /\ eventHistory' = S.eventHistory
    /\ eventCache' = S.eventCache
    /\ queue' = S.queue
    /\ timer' = S.timer
    /\ timeouts' = S.timeouts
    /\ processing' = S.processing
    /\ metrics' = S.metrics
    /\ discovery' = S.discovery
    /\ nextId' = S.nextId
    /\ nextWrapper' = S.nextWrapper
    /\ accepted' = S.accepted
    /\ handed' = S.handed
    /\ discarded' = S.discarded
    /\ onceCalls' = S.onceCalls
    /\ emits' = S.emits
    /\ emissions' = S.emissions
    /\ invoked' = S.invoked
    /\ discoverCall' = S.discoverCall
    /\ pending' = S.pending
    /\ registered' = S.registered
    /\ received' = S.received
    /\ settled' = S.settled
    /\ destroyed' = S.destroyed
    /\ isHooked' = S.isHooked
    /\ autoHookInstalled' = S.autoHookInstalled
    /\ messageEvents' = S.messageEvents
    /\ wiring' = S.wiring
    /\ mutated' = S.mutated
    /\ current' = S.current
    /\ lastOp' = turn

\* the same for a turn of the shared pipeline alone
Becomes(S, turn) ==
    /\ Assign(S, turn)
    /\ UNCHANGED <<active, instances, solo>>


\* the pipeline after new WebSocketHookManager()
Constructed ==
    [ config |-> DEFAULT_CONFIG, events |-> <<>>, onceEvents |-> {}, deferred |-> <<>>,
      eventHistory |-> <<>>, eventCache |-> <<>>, queue |-> <<>>, timer |-> NoTimer,
      processing |-> FALSE, metrics |-> EmptyMetrics,
      discovery |-> [isDiscovering |-> FALSE, discoveries |-> <<>>],
      nextId |-> 1, nextWrapper |-> 1, accepted |-> <<>>, handed |-> <<>>,
      discarded |-> {}, onceCalls |-> <<>>, emits |-> 0, emissions |-> <<>>,
      invoked |-> <<>>, lastOp |-> "init", discoverCall |-> NoCall, pending |-> <<>>,
      registered |-> {}, received |-> <<>>, settled |-> <<>>, destroyed |-> FALSE,
      isHooked |-> FALSE, autoHookInstalled |-> FALSE, messageEvents |-> <<>>,
      timeouts |-> <<>>, wiring |-> Wired(DEFAULT_CONFIG), mutated |-> {},
      current |-> 0 ]

InstanceIds == {1, 2}

\* the place of an identifier that names no pipeline
NoInstance == [destroyed |-> TRUE]

\* the state after the library has loaded
Init ==
    /\ config = DEFAULT_CONFIG
    /\ events = <<>>
    /\ onceEvents = {}
    /\ deferred = <<>>
    /\ eventHistory = <<>>
    /\ eventCache = <<>>
    /\ queue = <<>>
    /\ timer = NoTimer
    /\ timeouts = <<>>
    /\ processing = FALSE
    /\ metrics = EmptyMetrics
    /\ discovery = [isDiscovering |-> FALSE, discoveries |-> <<>>]
    /\ nextId = 1
    /\ nextWrapper = 1
    /\ accepted = <<>>
    /\ handed = <<>>
    /\ discarded = {}
    /\ onceCalls = <<>>
    /\ emits = 0
    /\ emissions = <<>>
    /\ invoked = <<>>
    /\ discoverCall = NoCall
    /\ pending = <<>>
    /\ registered = {}
    /\ received = <<>>
    /\ settled = <<>>
    /\ destroyed = FALSE
    /\ isHooked = FALSE
    /\ autoHookInstalled = FALSE
    /\ messageEvents = <<>>
    /\ wiring = Wired(DEFAULT_CONFIG)
    /\ mutated = {}
    /\ current = 0
    /\ active = {}
    /\ instances = [i \in InstanceIds |-> NoInstance]
    /\ solo = NoInstance
    /\ lastOp = "init"

\* a deferred intake turn: setTimeout(() => self.processMessage(message), 0)
Receive(message) ==
    /\ nextId <= MaxMessages
    /\ Becomes(processMessage([Begin EXCEPT !.received = <<message>>], message),
               "processMessage")

ReceiveTyped == \E m \in TypedMessages : Receive(m)

\* the same with one payload, where envelopes differ by identity and type only
ReceiveOne == \E m \in MessagesX : Receive(m)

\* a live timeout of the queue fires: () => this.flush()
TimerFire ==
    \E i \in 1..Len(timeouts) :
        Becomes(flush([Begin EXCEPT !.timeouts = RemoveAt(@, i)]), "timer")

\* a deferred isolate-mode listener turn
RunDeferred ==
    /\ deferred # <<>>
    /\ Becomes(runIsolated([Begin EXCEPT !.deferred = Tail(@)], Head(deferred)),
               "runIsolated")

Configure(options) == Becomes(configure(Begin, options), "call")

\* MWIWebSocket.discover()
Discover == Becomes(discover(Begin), "discover")

\* the window timer fires: () => { this.stop() }
DiscoveryTimer ==
    /\ discoverCall.timer
    /\ Becomes(stop([Begin EXCEPT !.discoverCall.timer = FALSE]), "discoveryTimer")

\* the browser dispatches a MessageEvent
dispatchEvent(S, message, isMWISocket) ==
    [S EXCEPT !.messageEvents = Append(@, MessageEvent(message, isMWISocket))]

\* a message of the game's socket is dispatched and its handler reads
\* event.data while the hook is installed
HookedGet(message) ==
    /\ isHooked
    /\ nextId + Len(pending) <= MaxMessages
    /\ Becomes(getData(dispatchEvent(Begin, message, TRUE), Len(messageEvents) + 1),
               "hookedGet")

\* the deferred intake of a message read earlier
Intake ==
    /\ pending # <<>>
    /\ Becomes(processMessage([Begin EXCEPT !.pending = Tail(@),
                                            !.received = <<Head(pending)>>],
                               Head(pending)),
               "processMessage")

\* MWIWebSocket.destroy()
Destroy == Becomes(destroy(Begin), "destroy")

Clear == Becomes(clear(Begin), "clear")

\* the data object handed to a listener
Data(t, p) == [hasType |-> TRUE, type |-> t, payload |-> p]

\* MWIWebSocket.on(key, callback)
On(key, cb) ==
    /\ listenerCount(St, NoKey) < MaxListeners
    /\ Becomes(on(ensureHook(Begin), <<key>>, Plain(cb)), "call")

\* MWIWebSocket.once(key, callback)
Once(key, cb) ==
    /\ listenerCount(St, NoKey) < MaxListeners
    /\ nextWrapper <= MaxOnce
    /\ Becomes(once(ensureHook(Begin), <<key>>, cb), "call")

\* MWIWebSocket.off(key, listener), also reached through the function returned by on / once
Off(key, listener) == Becomes(off(Begin, <<key>>, listener), "call")

\* MWIWebSocket.offAll(key)
OffAll(key) == Becomes(offAll(Begin, key), "call")

\* MWIWebSocket.emit(type, data)
EmitApi(t, p) ==
    /\ emits < MaxEmits
    /\ Becomes(leave(emit([Begin EXCEPT !.current = 0 - (emits + 1)], t, Data(t, p),
                           "api").st),
               "call")

(***************************************************************************)
(* Specification of the history buffer and the cache: messages arrive,     *)
(* the batch timer fires, and configure changes the capacities             *)
(***************************************************************************)
HistorySizes == {0, 1, 2}
CacheSizes == {1, 2}

StoreOptions ==
    {[historySize |-> h] : h \in HistorySizes} \cup {[cacheSize |-> c] : c \in CacheSizes}

ConfigureStore == \E o \in StoreOptions : Configure(o)

NextStore == ReceiveTyped \/ TimerFire \/ ConfigureStore \/ Clear

SpecStore == Init /\ [][NextStore]_vars

(***************************************************************************)
(* Specification of the batch scheduler: messages arrive, the batch timer  *)
(* fires, and configure changes the batching options                       *)
(***************************************************************************)
BatchSizes == {1, 2}
BatchIntervals == {100, 200}

QueueOptions ==
    {[enableBatching |-> b] : b \in BOOLEAN}
        \cup {[maxBatchSize |-> n] : n \in BatchSizes}
        \cup {[batchInterval |-> i] : i \in BatchIntervals}

ConfigureQueue == \E o \in QueueOptions : Configure(o)

NextQueue == ReceiveOne \/ TimerFire \/ ConfigureQueue \/ Clear

SpecQueue == Init /\ [][NextQueue]_vars

(***************************************************************************)
(* Specification of the dispatcher: listeners are registered and removed,  *)
(* events are emitted through the public emit, deferred listener turns     *)
(* run, and configure changes the error-handling mode                      *)
(***************************************************************************)
Keys == {TypeA, KeyAStar, KeyDotStar}
Modes == {"isolate", "suppress", "propagate"}

Subscribe == \E k \in Keys, c \in Callbacks : On(k, c)

\* once() is exercised with one key and one callback
OnceKeys == {TypeA}
OnceCallbacks == {"f"}

SubscribeOnce == \E k \in OnceKeys, c \in OnceCallbacks : Once(k, c)

Unsubscribe == \E k \in Keys, l \in {Plain(c) : c \in Callbacks} \cup onceEvents : Off(k, l)

UnsubscribeAll == \E k \in Keys \cup {NoKey} : OffAll(k)

EmitAny == \E t \in Types : EmitApi(t, "x")

ConfigureMode == \E m \in Modes : Configure([errorHandling |-> m])

NextEmitter ==
    Subscribe \/ SubscribeOnce \/ Unsubscribe \/ UnsubscribeAll \/ EmitAny
        \/ RunDeferred \/ ConfigureMode

SpecEmitter == Init /\ [][NextEmitter]_vars

(***************************************************************************)
(* Specification of the dispatcher in its default mode, isolate, where the *)
(* event loop runs every pending zero-delay timer callback                 *)
(***************************************************************************)
\* off(TypeA, callback): a listener may be removed while a call of it is pending
UnsubscribeExact == \E l \in PlainListeners : Off(TypeA, l)

\* listeners are registered for the exact type and for a wildcard covering it
IsolateKeys == {TypeA, KeyAStar}

SubscribeIsolate == \E k \in IsolateKeys, c \in Callbacks : On(k, c)

NextIsolate ==
    SubscribeIsolate \/ SubscribeOnce \/ UnsubscribeExact \/ EmitAny \/ RunDeferred

SpecIsolate == Init /\ [][NextIsolate]_vars /\ WF_vars(RunDeferred)

(***************************************************************************)
(* Specification of the dispatcher in its synchronous modes: the           *)
(* application emits once errorHandling is 'suppress' or 'propagate', so   *)
(* that every listener call happens inside emit                            *)
(***************************************************************************)
EmitSync ==
    /\ config.errorHandling # "isolate"
    /\ EmitAny

NextSync ==
    Subscribe \/ SubscribeOnce \/ Unsubscribe \/ UnsubscribeAll \/ ConfigureMode \/ EmitSync

SpecSync == Init /\ [][NextSync]_vars

(***************************************************************************)
(* Specification of the listener cap: listeners are registered and         *)
(* removed, and configure changes maxListenersPerEvent                     *)
(***************************************************************************)
Caps == {1, 2}

ConfigureCap == \E n \in Caps : Configure([maxListenersPerEvent |-> n])

NextCap == Subscribe \/ SubscribeOnce \/ Unsubscribe \/ UnsubscribeAll \/ ConfigureCap

SpecCap == Init /\ [][NextCap]_vars

(***************************************************************************)
(* Specification of the filters: listeners are registered, messages        *)
(* arrive, the batch timer fires, deferred listener turns run, and         *)
(* configure changes the blacklist and the whitelist                       *)
(***************************************************************************)
Blacklists == {{}, {TypeA}}
Whitelists == {{}, {TypeA}, {TypeB}}

FilterOptions ==
    {[eventBlacklist |-> b] : b \in Blacklists}
        \cup {[eventWhitelist |-> w] : w \in Whitelists}

ConfigureFilter == \E o \in FilterOptions : Configure(o)

SubscribeFilter == \E k \in Types : On(k, "f")

ReceiveFilter ==
    /\ metrics.droppedEvents < MaxDropped
    /\ ReceiveOne

NextFilter ==
    SubscribeFilter \/ ReceiveFilter \/ TimerFire \/ RunDeferred \/ ConfigureFilter

SpecFilter == Init /\ [][NextFilter]_vars

(***************************************************************************)
(* Specification of teardown: listeners are registered, messages are read  *)
(* through the hook and taken in by deferred turns, a discovery window is  *)
(* opened, the timers fire, and destroy() is called; after destroy() the   *)
(* application makes no further call, so that only callbacks deferred      *)
(* earlier still run                                                       *)
(***************************************************************************)
HookedOne == \E m \in MessagesX : HookedGet(m)

ApiBeforeDestroy ==
    /\ ~destroyed
    /\ (SubscribeFilter \/ HookedOne \/ Discover \/ Destroy)

NextDestroy == ApiBeforeDestroy \/ Intake \/ TimerFire \/ RunDeferred \/ DiscoveryTimer

SpecDestroy == Init /\ [][NextDestroy]_vars

(***************************************************************************)
(* Specification of discovery: messages arrive, the batch timer fires,     *)
(* discover() is called, the window timer fires, and configure changes     *)
(* the discovery options                                                   *)
(***************************************************************************)
DiscoveryLimits == {1, 100}

DiscoveryOptions ==
    {[enableDiscovery |-> b] : b \in BOOLEAN}
        \cup {[discoveryLimit |-> n] : n \in DiscoveryLimits}

ConfigureDiscovery == \E o \in DiscoveryOptions : Configure(o)

NextDiscovery == ReceiveOne \/ TimerFire \/ Discover \/ DiscoveryTimer \/ ConfigureDiscovery

SpecDiscovery == Init /\ [][NextDiscovery]_vars

(***************************************************************************)
(* Specification of fixed capacities: configure sets historySize and       *)
(* cacheSize before the first message, then messages of three types        *)
(* arrive and the batch timer fires                                        *)
(***************************************************************************)
StoredTypes == {TypeA, TypeB, TypeC}

ConfigureCapacity ==
    /\ accepted = <<>>
    /\ ConfigureStore

ReceiveStored ==
    /\ nextId <= MaxStored
    /\ \E t \in StoredTypes :
           Becomes(processMessage([Begin EXCEPT !.received = <<TypedMessage(t, "x")>>],
                                  TypedMessage(t, "x")),
                   "processMessage")

NextCapacity == ConfigureCapacity \/ ReceiveStored \/ TimerFire

SpecCapacity == Init /\ [][NextCapacity]_vars

(***************************************************************************)
(* Specification of clear(): listeners are registered, messages arrive and *)
(* are batched, the timers fire, configure changes maxBatchSize, and       *)
(* clear() is called                                                       *)
(***************************************************************************)
ConfigureBatch == \E n \in BatchSizes : Configure([maxBatchSize |-> n])

NextClear ==
    SubscribeFilter \/ ReceiveOne \/ TimerFire \/ RunDeferred \/ ConfigureBatch \/ Clear

SpecClear == Init /\ [][NextClear]_vars

(***************************************************************************)
(* Specification of pipeline dispatch: listeners are registered, messages  *)
(* arrive and are batched, the batch timer fires, deferred listener turns  *)
(* run, and configure changes the error-handling mode                      *)
(***************************************************************************)
DispatchKeys == {TypeA, KeyAStar}

SubscribeDispatch == \E k \in DispatchKeys, c \in Callbacks : On(k, c)

ReceiveDispatch == ReceiveOne

NextDispatch ==
    SubscribeDispatch \/ SubscribeOnce \/ ReceiveDispatch \/ TimerFire \/ RunDeferred
        \/ ConfigureMode

SpecDispatch == Init /\ [][NextDispatch]_vars

(***************************************************************************)
(* Specification of flush: messages arrive and are batched, the batch      *)
(* timer fires, configure changes maxBatchSize, flush() is called          *)
(* directly on whatever the queue holds, and flush() is called again while *)
(* a flush is in progress                                                  *)
(***************************************************************************)
\* this.flush() on the queue as it is
FlushCall == Becomes(flush(Begin), IF queue = <<>> THEN "flushEmpty" ELSE "flush")

\* this.flush() called again during a flush of a non-empty queue
FlushReentered ==
    /\ queue # <<>>
    /\ Becomes(flushReentered(Begin), "flushReentered")

NextFlush == ReceiveOne \/ TimerFire \/ ConfigureBatch \/ FlushCall \/ FlushReentered

SpecFlush == Init /\ [][NextFlush]_vars

(***************************************************************************)
(* Specification of batches with failures: listeners, one of which throws, *)
(* are registered under a type and under a wildcard key that makes emit    *)
(* throw, configure sets the error-handling mode and maxBatchSize,         *)
(* messages arrive and are batched, and the batch timer and the deferred   *)
(* listener calls run                                                      *)
(***************************************************************************)
BatchKeys == {TypeA, KeyParenStar}

SubscribeBatch == \E k \in BatchKeys, c \in Callbacks : On(k, c)

ConfigurePropagate == Configure([errorHandling |-> "propagate"])

NextBatch ==
    SubscribeBatch \/ ConfigurePropagate \/ ConfigureBatch \/ ReceiveOne \/ TimerFire
        \/ RunDeferred

SpecBatch == Init /\ [][NextBatch]_vars

(***************************************************************************)
(* Specification of the registry keys: on, once, off and offAll are called *)
(* and configure sets maxListenersPerEvent, also to zero                   *)
(***************************************************************************)
KeyCaps == {0, 1}

ConfigureKeyCap == \E n \in KeyCaps : Configure([maxListenersPerEvent |-> n])

NextKeys == Subscribe \/ SubscribeOnce \/ Unsubscribe \/ UnsubscribeAll \/ ConfigureKeyCap

SpecKeys == Init /\ [][NextKeys]_vars

(***************************************************************************)
(* Specification of the WebSocket hook: listeners are registered, the hook *)
(* is installed and removed through the public API, the browser dispatches *)
(* MessageEvents of the game's socket and of other sockets, their data is  *)
(* read any number of times, and the deferred intakes, the batch timer and *)
(* the deferred listener calls run                                         *)
(***************************************************************************)
\* the browser dispatches a MessageEvent
DispatchEvent(message, isMWISocket) ==
    /\ Len(messageEvents) < MaxPayloads
    /\ Becomes(dispatchEvent(Begin, message, isMWISocket), "dispatchEvent")

\* some code reads event.data
ReadData(i) ==
    /\ Len(messageEvents[i].returned) < MaxReads
    /\ nextId + Len(pending) <= MaxMessages
    /\ Becomes(getData(Begin, i), "getData")

DispatchAny == \E b \in BOOLEAN, m \in MessagesAX : DispatchEvent(m, b)

ReadAny == \E i \in 1..Len(messageEvents) : ReadData(i)

\* MWIWebSocket.installHook()
InstallHook == Becomes(apiInstallHook(Begin), "installHook")

\* MWIWebSocket.removeHook()
RemoveHook == Becomes(apiRemoveHook(Begin), "removeHook")

SubscribeHook == On(TypeA, "f")

NextHook ==
    SubscribeHook \/ InstallHook \/ RemoveHook \/ DispatchAny \/ ReadAny \/ Intake
        \/ TimerFire \/ RunDeferred

SpecHook == Init /\ [][NextHook]_vars

(***************************************************************************)
(* Specification of reconfiguration: configure sets the logging options    *)
(* and the error-handling mode, a listener is registered, messages arrive  *)
(* and are batched, and the batch timer and the deferred listener calls    *)
(* run                                                                     *)
(***************************************************************************)
LogLevels == {"error", "debug"}

LoggingOptions ==
    {[debug |-> b] : b \in BOOLEAN} \cup {[logLevel |-> l] : l \in LogLevels}
        \cup {[errorHandling |-> "suppress"]}

ConfigureLogging == \E o \in LoggingOptions : Configure(o)

NextConfigure == ConfigureLogging \/ SubscribeHook \/ ReceiveOne \/ TimerFire \/ RunDeferred

SpecConfigure == Init /\ [][NextConfigure]_vars

(***************************************************************************)
(* Specification of stored dispatch: listeners are registered for the two  *)
(* types, configure sets the synchronous mode 'suppress', maxBatchSize and *)
(* cacheSize, messages arrive and are batched, and the batch timer and the *)
(* deferred listener calls run                                             *)
(***************************************************************************)
ConfigureSuppress == Configure([errorHandling |-> "suppress"])

ConfigureCache == \E c \in CacheSizes : Configure([cacheSize |-> c])

NextOrder ==
    SubscribeFilter \/ ConfigureSuppress \/ ConfigureBatch \/ ConfigureCache \/ ReceiveOne
        \/ TimerFire \/ RunDeferred

SpecOrder == Init /\ [][NextOrder]_vars

(***************************************************************************)
(* Specification of intake: well-formed and malformed payloads arrive,     *)
(* the batch timer fires, configure sets preParsing, and a discovery       *)
(* window is opened and closed                                             *)
(***************************************************************************)
\* a binary frame; the text "{"; the text "hello"; the text "type" in quotes
\* alone; the cut-off text {"type":"a ; the object {"kind":"a"}; and the
\* array ["\"type\""], whose text holds the literal without being a key
MalformedMessages ==
    { Raw(FALSE, 0, "", FALSE, FALSE, NoData),
      Raw(TRUE, 1, "{", FALSE, FALSE, NoData),
      Raw(TRUE, 5, "h", FALSE, FALSE, NoData),
      Raw(TRUE, 6, "\"", TRUE, FALSE, NoData),
      Raw(TRUE, 11, "{", TRUE, FALSE, NoData),
      Raw(TRUE, 12, "{", FALSE, TRUE, NoData),
      Raw(TRUE, 12, "[", TRUE, TRUE, NoData) }

ReceiveMalformed == \E m \in MalformedMessages : Receive(m)

ConfigurePreParsing == \E b \in BOOLEAN : Configure([preParsing |-> b])

NextIntake ==
    ReceiveMalformed \/ ReceiveTyped \/ TimerFire \/ ConfigurePreParsing \/ Discover
        \/ DiscoveryTimer

SpecIntake == Init /\ [][NextIntake]_vars

(***************************************************************************)
(* Specification of listeners that write: a listener that assigns to the   *)
(* payload it is given and one that only reads are registered, configure   *)
(* sets the synchronous mode 'suppress', messages arrive and are batched,  *)
(* and the batch timer and the deferred listener calls run                 *)
(***************************************************************************)
MutateCallbacks == {"mut", "f"}

SubscribeMutate == \E c \in MutateCallbacks : On(TypeA, c)

NextMutate == SubscribeMutate \/ ConfigureSuppress \/ ReceiveOne \/ TimerFire \/ RunDeferred

SpecMutate == Init /\ [][NextMutate]_vars

(***************************************************************************)
(* Specification of the batch scheduler with timers that fire: as the      *)
(* batch scheduler above, where the event loop eventually runs the         *)
(* callback of a timeout that stays live                                   *)
(***************************************************************************)
\* Weak fairness of TimerFire, written out: TimerFire is enabled exactly
\* when a timeout is live (it removes the timeout it runs, so it changes the
\* state), and its steps are the steps that leave lastOp = "timer".  Either
\* no timeout is live infinitely often, or a timer callback runs infinitely
\* often.
TimersFire == []<>(timeouts = <<>>) \/ []<><<lastOp' = "timer">>_vars

SpecDrain == Init /\ [][NextQueue]_vars /\ TimersFire

(***************************************************************************)
(* Specification of the Instance Registry: pipeline instances are created  *)
(* and destroyed, each has its own configuration, listeners and batch      *)
(* timer, and the one interception forwards every raw payload to the       *)
(* intake of every registered instance.  The variable                      *)
(* solo is the pipeline of consumer 1 in the run that gives consumer 1 the *)
(* same creations, calls, timer turns and payloads while no other consumer *)
(* configures anything.                                                    *)
(***************************************************************************)
\* createInstance(options): a pipeline of its own with the given options
createInstance(options) == [Constructed EXCEPT !.config = Merge(DEFAULT_CONFIG, options)]

\* register(instance): the first registration installs the interception
register(S, registeredBefore) == IF registeredBefore = {} THEN installHook(S) ELSE S

\* unregister that uninstalls the interception whenever an instance leaves
unregisterAlways(S, remaining) == removeHook(S)

\* unregister(instance): the interception is uninstalled when no instance remains
unregister(S, remaining) == IF remaining = {} THEN removeHook(S) ELSE S

\* intake of one instance
intake(S, message) == processMessage([BeginOf(S) EXCEPT !.received = <<message>>], message)

\* dispatch-to-many: the payload goes to the intake of every registered instance
forward(insts, registeredNow, message) ==
    [i \in InstanceIds |->
        IF i \in registeredNow THEN intake(insts[i], message) ELSE insts[i]]

\* configure of an instance that writes the options into every instance
configureShared(insts, i, options) ==
    [j \in InstanceIds |->
        IF insts[j] = NoInstance THEN NoInstance ELSE configure(BeginOf(insts[j]), options)]

\* instance.configure(options)
configureInstance(insts, i, options) ==
    [insts EXCEPT ![i] = configure(BeginOf(@), options)]

\* instances are created with listeners called inside emit
CreateOptions == {[errorHandling |-> "suppress"]}

InstanceOptions == {[eventBlacklist |-> {TypeA}], [maxBatchSize |-> 1]}

\* MWIWebSocket.createInstance(options)
CreateInstance(i, options) ==
    /\ i \notin active
    /\ active' = active \cup {i}
    /\ instances' = [instances EXCEPT ![i] = createInstance(options)]
    /\ solo' = IF i = 1 THEN createInstance(options) ELSE solo
    /\ Assign(register(Begin, active), "createInstance")

\* instance.destroy()
DestroyInstance(i) ==
    /\ i \in active
    /\ active' = active \ {i}
    /\ instances' = [instances EXCEPT ![i] = NoInstance]
    /\ solo' = IF i = 1 THEN NoInstance ELSE solo
    /\ Assign(unregister(Begin, active \ {i}), "destroyInstance")

\* the deferred turn of a raw payload read through the interception
Deliver(message) ==
    /\ isHooked
    /\ Len(messageEvents) < MaxPayloads
    /\ instances' = forward(instances, active, message)
    /\ solo' = IF 1 \in active THEN intake(solo, message) ELSE solo
    /\ UNCHANGED active
    /\ Assign(dispatchEvent(Begin, message, TRUE), "deliver")

\* instance.configure(options)
ConfigureInstance(i, options) ==
    /\ i \in active
    /\ instances' = configureInstance(instances, i, options)
    /\ solo' = IF i = 1 THEN configure(BeginOf(solo), options) ELSE solo
    /\ UNCHANGED active
    /\ Assign(Begin, "configureInstance")

\* instance.on(TypeA, f)
SubscribeInstance(i) ==
    /\ i \in active
    /\ listenerCount(instances[i], NoKey) < MaxSubscriptions
    /\ instances' = [instances EXCEPT ![i] = on(BeginOf(@), <<TypeA>>, Plain("f"))]
    /\ solo' = IF i = 1 THEN on(BeginOf(solo), <<TypeA>>, Plain("f")) ELSE solo
    /\ UNCHANGED active
    /\ Assign(Begin, "onInstance")

\* the turn of the oldest live timeout of a pipeline
timerTurn(S) ==
    flush([BeginOf(S) EXCEPT !.timeouts = IF @ = <<>> THEN @ ELSE Tail(@)])

\* the batch timer of an instance fires
TimerFireInstance(i) ==
    /\ i \in active
    /\ instances[i].timeouts # <<>>
    /\ instances' = [instances EXCEPT ![i] = timerTurn(@)]
    /\ solo' = IF i = 1 THEN timerTurn(solo) ELSE solo
    /\ UNCHANGED active
    /\ Assign(Begin, "timerInstance")

CreateAny == \E i \in InstanceIds, o \in CreateOptions : CreateInstance(i, o)
DestroyAny == \E i \in InstanceIds : DestroyInstance(i)
DeliverOne == \E m \in MessagesAX : Deliver(m)
ConfigureAny == \E i \in InstanceIds, o \in InstanceOptions : ConfigureInstance(i, o)
SubscribeAny == \E i \in InstanceIds : SubscribeInstance(i)
TimerFireAny == \E i \in InstanceIds : TimerFireInstance(i)

NextInstances ==
    CreateAny \/ DestroyAny \/ DeliverOne \/ ConfigureAny \/ SubscribeAny
        \/ TimerFireAny

SpecInstances == Init /\ [][NextInstances]_vars

(***************************************************************************)
(* Claims                                                                  *)
(***************************************************************************)
Occurrences(s, x) == Cardinality({i \in 1..Len(s) : s[i] = x})

\* C1: in every reachable state the event history holds at most
\* config.historySize envelopes.
C1_HistoryWithinSize == Len(eventHistory) <= config.historySize

\* C2: in every reachable state the most-recent-event cache holds at most
\* config.cacheSize entries.
C2_CacheWithinSize == Len(eventCache) <= config.cacheSize

\* C3: the callback of every once() registration has been called at most once.
C3_OnceCalledAtMostOnce == \A w \in 1..Len(onceCalls) : onceCalls[w] <= 1

\* C4: every envelope created by intake and given to add is handed to the
\* processing callback at most once and unchanged, and as long as clear() has
\* not discarded it, it is either still queued or has been handed exactly once.
C4_HandedExactlyOnce ==
    /\ \A i \in 1..Len(handed) :
          /\ handed[i].id \in 1..Len(accepted)
          /\ handed[i] = accepted[handed[i].id]
    /\ \A id \in 1..Len(accepted) :
          /\ Occurrences(handed, accepted[id]) <= 1
          /\ id \notin discarded =>
                Occurrences(handed, accepted[id]) + Occurrences(queue, accepted[id]) = 1

\* C4 witness: with batching enabled, intake of a message filled the queue
\* to maxBatchSize = 2 while the flush timer of the first message was armed,
\* and the size-triggered flush handed both envelopes over.
C4_Witness ==
    /\ lastOp = "processMessage"
    /\ config.enableBatching
    /\ config.maxBatchSize = 2
    /\ queue = <<>>
    /\ ~timer.armed
    /\ Len(handed) >= 2
    /\ handed[Len(handed)].id = Len(accepted)

\* C5: envelopes of the same type reach the processing callback in the order
\* in which intake accepted them.
C5_SameTypeFifo ==
    \A i, j \in 1..Len(handed) :
        (i < j /\ handed[i].type = handed[j].type) => handed[i].id < handed[j].id

RECURSIVE GlobMatch(_, _)
\* the wildcard rule of the specification: "*" stands for any substring, every
\* other character of the pattern for itself, the whole of str being covered
GlobMatch(str, pattern) ==
    IF pattern = <<>> THEN str = <<>>
    ELSE IF Head(pattern) = "*"
         THEN \E i \in 0..Len(str) : GlobMatch(SubSeq(str, i + 1, Len(str)), Tail(pattern))
    ELSE str # <<>> /\ Head(str) = Head(pattern) /\ GlobMatch(Tail(str), Tail(pattern))

\* the callbacks an emission e has to notify: those registered at emit time
\* under the exact key e.type or under a wildcard key that matches e.type
Expected(e) ==
    {l \in UNION {Range(e.registry[i].ls) : i \in 1..Len(e.registry)} :
        \E i \in 1..Len(e.registry) :
            /\ l \in Range(e.registry[i].ls)
            /\ \/ e.registry[i].key = e.type
               \/ Contains(e.registry[i].key, "*") /\ GlobMatch(e.type, e.registry[i].key)}

\* the listeners an emission called or, in isolate mode, scheduled
Notified(e) == IF e.mode = "isolate" THEN e.scheduled ELSE e.called

\* C6: every emit notifies exactly the callbacks registered under the exact
\* key or under a matching wildcard key, each once, and returns their number.
C6_EmitNotifiesMatching ==
    \A i \in 1..Len(emissions) :
        LET e == emissions[i]
        IN  /\ Range(Notified(e)) = Expected(e)
            /\ Len(Notified(e)) = Cardinality(Expected(e))
            /\ e.ret = Cardinality(Expected(e))

\* the deferred tasks an emission has scheduled
TasksOf(e) ==
    [k \in 1..Len(e.scheduled) |-> [listener |-> e.scheduled[k], type |-> e.type, data |-> e.data,
                                     ref |-> e.envelope]]

\* the deferred tasks scheduled by the last turn or call
TasksOfLastOp == Flatten([i \in 1..Len(emissions) |-> TasksOf(emissions[i])])

IsSuffix(t, s) == Len(t) <= Len(s) /\ SubSeq(s, Len(s) - Len(t) + 1, Len(s)) = t

IsPrefix(t, s) == Len(t) <= Len(s) /\ SubSeq(s, 1, Len(t)) = t

\* an isolate-mode emit has called no listener itself and has scheduled every
\* matched listener once, the tasks being pending when emit returns
C7_Scheduled ==
    /\ \A i \in 1..Len(emissions) :
          emissions[i].mode = "isolate" =>
              /\ emissions[i].called = <<>>
              /\ emissions[i].scheduled = emissions[i].matched
              /\ ~emissions[i].threw
    /\ IsSuffix(TasksOfLastOp, deferred)

\* a pending task leaves the list of pending tasks only in a turn of its own
\* that calls its listener once with the event type and data of its emission,
\* also when the listener called throws; every other step keeps the pending
\* tasks and calls no listener outside an emit
C7_OwnTurn ==
    \/ /\ deferred # <<>>
       /\ deferred' = Tail(deferred)
       /\ invoked' = <<Head(deferred)>>
    \/ /\ IsPrefix(deferred, deferred')
       /\ Len(invoked') = Len(Flatten([i \in 1..Len(emissions') |-> emissions'[i].called]))

\* C7: in isolate mode every listener matched by an emission is scheduled
\* before emit returns and is eventually called exactly once in a turn of its
\* own, whether or not another listener throws.
C7_IsolateRunsEach ==
    /\ []C7_Scheduled
    /\ [][C7_OwnTurn]_vars
    /\ (deferred # <<>>) ~> (deferred = <<>>)

\* C7 witness: of two listeners scheduled by one emission the first has run
\* in its own turn and thrown, and the second is still pending.
C7_Witness ==
    /\ lastOp = "runIsolated"
    /\ invoked = <<[listener |-> Plain("bad"), type |-> TypeA, data |-> Data(TypeA, "x"),
                    ref |-> -1]>>
    /\ deferred = <<[listener |-> Plain("f"), type |-> TypeA, data |-> Data(TypeA, "x"),
                     ref |-> -1]>>

\* index of the first listener of m whose callback throws, 0 if there is none
FirstThrower(m) ==
    IF \E k \in 1..Len(m) : Throws(m[k].cb)
    THEN CHOOSE k \in 1..Len(m) : Throws(m[k].cb) /\ \A j \in 1..(k - 1) : ~Throws(m[j].cb)
    ELSE 0

\* C8: in propagate mode the matched listeners run inside emit; when one
\* throws, the listeners after it are not called and the exception leaves emit.
C8_PropagateAborts ==
    \A i \in 1..Len(emissions) :
        LET e == emissions[i]
            k == FirstThrower(e.matched)
        IN  e.mode = "propagate" =>
                /\ e.scheduled = <<>>
                /\ k = 0 => (e.called = e.matched /\ ~e.threw)
                /\ k > 0 => (e.called = SubSeq(e.matched, 1, k) /\ e.threw)

\* C9: in suppress mode every matched listener has been called inside emit,
\* in order, also after a listener that threw, and no exception leaves emit.
C9_SuppressRunsAll ==
    \A i \in 1..Len(emissions) :
        LET e == emissions[i]
        IN  e.mode = "suppress" =>
                /\ e.called = e.matched
                /\ e.scheduled = <<>>
                /\ ~e.threw
                /\ e.ret = Len(e.matched)

\* C9 witness: a suppress-mode emit matched a throwing listener followed by
\* another listener and called both.
C9_Witness ==
    /\ emissions # <<>>
    /\ emissions[1].mode = "suppress"
    /\ emissions[1].matched = <<Plain("bad"), Plain("f")>>
    /\ emissions[1].called = <<Plain("bad"), Plain("f")>>
    /\ ~emissions[1].threw

\* number of listener calls of a turn that threw
RaisedIn(inv) == Cardinality({k \in 1..Len(inv) : Throws(inv[k].listener.cb)})

\* C10: every step raises the errors metric by the number of exceptions its
\* listener calls threw.
C10_ErrorsCountListenerExceptions ==
    [][metrics'.errors = metrics.errors + RaisedIn(invoked')]_vars

\* C11: in every reachable state the listener set of every key holds at most
\* config.maxListenersPerEvent callbacks, also after configure lowered the cap.
C11_ListenersWithinCap ==
    \A i \in 1..Len(events) : Len(events[i].ls) <= config.maxListenersPerEvent

\* the keys listenerCount is asked about
CountedKeys == Keys \cup Types

\* C12: listenerCount(key) is the number of distinct callbacks registered
\* under exactly that key and not removed since.
C12_CountIsExactRegistrations ==
    \A k \in CountedKeys :
        listenerCount(St, k) = Cardinality({r \in registered : r[1] = k})

\* C12 witness: the same callback is registered under a key and under a
\* wildcard key matching it, and the count of the key is 1.
C12_Witness ==
    /\ registered = {<<TypeA, Plain("f")>>, <<KeyAStar, Plain("f")>>}
    /\ listenerCount(St, TypeA) = 1
    /\ listenerCount(St, TypeB) = 0

\* the type is rejected by the blacklist or by a non-empty whitelist
Filtered(cfg, t) ==
    t \in cfg.eventBlacklist \/ (cfg.eventWhitelist # {} /\ t \notin cfg.eventWhitelist)

\* the envelopes the pipeline holds or has handed on
Held == Range(queue) \cup Range(handed)

\* C13: an intake turn for a parsed message of a filtered type adds one to
\* droppedEvents and leaves queue, history, cache and listeners alone; for a
\* type that passes both filters it leaves droppedEvents alone and hands one
\* new envelope of that type to the queue.
C13_FilteredDroppedOnce ==
    [][\A m \in Range(received') :
          IF Filtered(config, m.data.type)
          THEN /\ metrics'.droppedEvents = metrics.droppedEvents + 1
               /\ accepted' = accepted
               /\ queue' = queue
               /\ handed' = handed
               /\ eventHistory' = eventHistory
               /\ eventCache' = eventCache
               /\ deferred' = deferred
               /\ invoked' = <<>>
               /\ emissions' = <<>>
          ELSE /\ metrics'.droppedEvents = metrics.droppedEvents
               /\ Len(accepted') = Len(accepted) + 1
               /\ accepted'[Len(accepted')].type = m.data.type
               /\ accepted'[Len(accepted')] \in Range(queue') \cup Range(handed')
               /\ accepted'[Len(accepted')] \notin Held]_vars

\* C13 witness: a message whose type is blacklisted and also missing from the
\* non-empty whitelist has been through intake and was counted once.
C13_Witness ==
    /\ lastOp = "processMessage"
    /\ received = <<TypedMessage(TypeA, "x")>>
    /\ TypeA \in config.eventBlacklist
    /\ config.eventWhitelist = {TypeB}
    /\ metrics.droppedEvents = 1
    /\ accepted = <<>>
    /\ events # <<>>

\* C14: once destroy() has returned, no step changes the history, the cache,
\* the queue, the metrics, the discovery state or the configuration, and no
\* step calls a listener.
C14_NothingRunsAfterDestroy ==
    [][destroyed =>
          /\ eventHistory' = eventHistory
          /\ eventCache' = eventCache
          /\ queue' = queue
          /\ metrics' = metrics
          /\ discovery' = discovery
          /\ config' = config
          /\ invoked' = <<>>]_vars

\* a window is open exactly while one discover() call waits on one armed timer
C15_OneWindow ==
    /\ discovery.isDiscovering <=> discoverCall.waiting
    /\ discovery.isDiscovering <=> discoverCall.timer

\* a discover() call during an open window is rejected at once and leaves
\* the window, its records, its timer and the waiting call as they were; a
\* window opens only by a discover() call that is not rejected and closes
\* only when its timer fires, which resolves the waiting call
C15_Transitions ==
    /\ (discovery.isDiscovering /\ lastOp' = "discover") =>
           /\ Len(settled') = 1
           /\ settled'[1].kind = "rejected"
           /\ discovery' = discovery
           /\ discoverCall' = discoverCall
    /\ (~discovery.isDiscovering /\ discovery'.isDiscovering) =>
           /\ lastOp' = "discover"
           /\ settled' = <<>>
    /\ (discovery.isDiscovering /\ ~discovery'.isDiscovering) =>
           /\ lastOp' = "discoveryTimer"
           /\ Len(settled') = 1
           /\ settled'[1].kind = "resolved"
           /\ settled'[1].from = discoverCall.from
           /\ discoverCall' = NoCall

\* C15: discover() during an open window fails immediately and is not
\* queued; the open window keeps its records, closes on its own timer and
\* resolves its own call; Idle -> Discovering -> Idle are the only transitions.
C15_ReentryRejected == []C15_OneWindow /\ [][C15_Transitions]_vars

\* C15 witness: a discover() call has just been rejected while the open
\* window holds a record.
C15_Witness ==
    /\ lastOp = "discover"
    /\ Len(settled) = 1
    /\ settled[1].kind = "rejected"
    /\ discovery.isDiscovering
    /\ discovery.discoveries # <<>>

\* the types of the envelopes of a sequence
TypesOf(w) == {w[i].type : i \in 1..Len(w)}

\* the number of envelopes of type t in a sequence
OccurrencesOf(w, t) == Cardinality({i \in 1..Len(w) : w[i].type = t})

\* the envelopes accepted since the open window was opened
InWindow == SubSeq(accepted, discoverCall.from + 1, Len(accepted))

\* C16: the snapshot resolved when a window closes has one record per type
\* accepted during the window, with the number of its occurrences in the
\* window as count, ordered by non-increasing count.
C16_SnapshotCountsWindow ==
    [][(lastOp' = "discoveryTimer" /\ settled' # <<>>) =>
          LET r == settled'[1].results
          IN  /\ Len(r) = Cardinality(TypesOf(InWindow))
              /\ {<<r[i].type, r[i].count>> : i \in 1..Len(r)}
                     = {<<t, OccurrencesOf(InWindow, t)>> : t \in TypesOf(InWindow)}
              /\ \A i \in 1..(Len(r) - 1) : r[i].count >= r[i + 1].count]_vars

\* the waiting discover() call took the flag as it was right before the call
\* and keeps that value while it waits; when the window closes and the call
\* resolves, config.enableDiscovery is that value again
C17_Restore ==
    /\ (~discoverCall.waiting /\ discoverCall'.waiting) =>
           discoverCall'.oldConfig = config.enableDiscovery
    /\ (discoverCall.waiting /\ discoverCall'.waiting) =>
           discoverCall'.oldConfig = discoverCall.oldConfig
    /\ (discoverCall.waiting /\ ~discoverCall'.waiting) =>
           /\ settled' # <<>>
           /\ config'.enableDiscovery = discoverCall.oldConfig

\* C17: after a window has closed and its result has been delivered,
\* config.enableDiscovery is what it was right before the discover() call
\* that opened the window, whatever discover() calls were rejected meanwhile.
C17_FlagRestored == [][C17_Restore]_vars

\* C17 witness: a window opened with the flag off, which discover() turned
\* on, has closed with a result, and the flag is off again.
C17_Witness ==
    /\ lastOp = "discoveryTimer"
    /\ Len(settled) = 1
    /\ settled[1].kind = "resolved"
    /\ ~settled[1].oldConfig
    /\ ~config.enableDiscovery
    /\ settled[1].results # <<>>

\* the last n elements of a sequence, all of them if it has fewer
LastN(h, n) == SubSeq(h, IF Len(h) > n THEN Len(h) - n + 1 ELSE 1, Len(h))

\* C18: with a historySize c >= 1 that was set before the first envelope,
\* the history holds the c most recently processed envelopes, oldest first,
\* and getEventHistory() returns them in that order.
C18_HistoryKeepsMostRecent ==
    config.historySize >= 1 =>
        /\ eventHistory = LastN(handed, config.historySize)
        /\ getEventHistory(St, 0) = LastN(handed, config.historySize)

\* C18 witness: more envelopes than historySize have been processed and the
\* history is full.
C18_Witness ==
    /\ config.historySize = 2
    /\ Len(handed) > 2
    /\ Len(eventHistory) = 2

\* the cache after envelope e under eviction of the type inserted first
InsertOldestOut(cache, e, c) ==
    IF \E i \in 1..Len(cache) : cache[i].type = e.type
    THEN [i \in 1..Len(cache) |->
             IF cache[i].type = e.type THEN [type |-> e.type, msg |-> e] ELSE cache[i]]
    ELSE IF Len(cache) < c THEN Append(cache, [type |-> e.type, msg |-> e])
    ELSE Append(Tail(cache), [type |-> e.type, msg |-> e])

RECURSIVE CacheAfter(_, _)
\* the cache after the envelopes of h, from an empty cache of capacity c
CacheAfter(h, c) ==
    IF h = <<>> THEN <<>>
    ELSE InsertOldestOut(CacheAfter(SubSeq(h, 1, Len(h) - 1), c), h[Len(h)], c)

\* C19: with caching enabled and a cacheSize c >= 1 that was set before the
\* first envelope, an envelope of a new type evicts the type inserted first
\* when the cache is full, and an envelope of a cached type replaces that
\* type's envelope in place and evicts nothing.
C19_CacheEvictsOldestInserted ==
    (config.enableCache /\ config.cacheSize >= 1) =>
        eventCache = CacheAfter(handed, config.cacheSize)

\* C19 witness: types a, b, a, c went into a cache of capacity 2, which
\* evicted a although a was updated after b was inserted.
C19_Witness ==
    /\ config.cacheSize = 2
    /\ [i \in 1..Len(handed) |-> handed[i].type] = <<TypeA, TypeB, TypeA, TypeC>>
    /\ [i \in 1..Len(eventCache) |-> eventCache[i].type] = <<TypeB, TypeC>>

\* C20: a clear() call leaves the history, the cache and the batch queue
\* empty, no flush timer armed and all metrics counters at zero, and leaves
\* the listener registrations and the configuration as they were.
C20_ClearFrame ==
    [][lastOp' = "clear" =>
          /\ eventHistory' = <<>>
          /\ eventCache' = <<>>
          /\ queue' = <<>>
          /\ ~timer'.armed
          /\ metrics'.totalEvents = 0
          /\ metrics'.eventsPerType = <<>>
          /\ metrics'.droppedEvents = 0
          /\ metrics'.errors = 0
          /\ events' = events
          /\ onceEvents' = onceEvents
          /\ registered' = registered
          /\ config' = config]_vars

\* C20 witness: clear() has run after envelopes were processed and while
\* others were queued, with a listener registered and maxBatchSize set.
C20_Witness ==
    /\ lastOp = "clear"
    /\ handed # <<>>
    /\ discarded # {}
    /\ events # <<>>
    /\ config # DEFAULT_CONFIG
    /\ queue = <<>>
    /\ metrics = EmptyMetrics

C23_ReadReturnsFirst ==
    [][lastOp' = "getData" =>
          /\ queue' = queue
          /\ timer' = timer
          /\ eventHistory' = eventHistory
          /\ eventCache' = eventCache
          /\ metrics' = metrics
          /\ discovery' = discovery
          /\ accepted' = accepted
          /\ handed' = handed
          /\ deferred' = deferred
          /\ received' = <<>>
          /\ emissions' = <<>>
          /\ invoked' = <<>>]_vars

\* a message was just read through the installed hook while a listener is
\* registered, and its intake waits for a later turn
C23_Witness ==
    /\ lastOp = "getData"
    /\ events # <<>>
    /\ pending # <<>>
    /\ \E i \in 1..Len(messageEvents) : messageEvents[i].scheduled = 1

\* C24: for every MessageEvent at most one intake is scheduled, exactly one
\* if it is of the game's socket and its data was read while the hook was
\* installed, however often it is read and however often the hook is asked
\* for; every read returned the message itself.
C24_IntakeOncePerMessage ==
    \A i \in 1..Len(messageEvents) :
        /\ messageEvents[i].scheduled =
               (IF messageEvents[i].isMWISocket /\ messageEvents[i].hookedReads > 0
                THEN 1 ELSE 0)
        /\ \A k \in 1..Len(messageEvents[i].returned) :
               messageEvents[i].returned[k] = messageEvents[i].message

\* a message of the game's socket has been read twice while the hook was
\* installed and has one intake scheduled
C24_Witness ==
    /\ lastOp = "getData"
    /\ autoHookInstalled
    /\ \E i \in 1..Len(messageEvents) :
          /\ messageEvents[i].isMWISocket
          /\ messageEvents[i].hookedReads = 2
          /\ messageEvents[i].scheduled = 1

\* C25: in every reachable state no key of the registry has an empty
\* listener set, so that getEventTypes() lists exactly the keys that have at
\* least one listener.
C25_NoEmptyKeys ==
    /\ \A i \in 1..Len(events) : events[i].ls # <<>>
    /\ Range(eventNames(St)) = {k \in Keys : listenerCount(St, k) >= 1}

\* C26: a wildcard key matches an event type exactly when the type is the
\* pattern with each "*" replaced by some string, every other character of
\* the pattern standing for itself: every test of a wildcard key made by an
\* emit call has the result of that rule.
C26_WildcardIsGlob ==
    \A i \in 1..Len(emissions) :
        \A k \in 1..Len(emissions[i].tests) :
            emissions[i].tests[k].result =
                (IF GlobMatch(emissions[i].type, emissions[i].tests[k].key)
                 THEN "true" ELSE "false")

\* C27: while a discovery window is open the discovery recorder tracks at
\* most config.discoveryLimit distinct event types, whatever messages are
\* accepted and whatever configure sets during the window.
C27_TrackedWithinLimit ==
    discovery.isDiscovering => Len(discovery.discoveries) <= config.discoveryLimit

\* C28: flush() on an empty queue changes nothing and hands nothing to the
\* processor, and flush() called while a flush is in progress changes
\* nothing either: the flush in progress ends as it does without the inner
\* call, having handed over its own batch only.
C28_FlushNoOp ==
    [][/\ lastOp' = "flushEmpty" =>
             /\ queue' = queue
             /\ timer' = timer
             /\ processing' = processing
             /\ handed' = handed
             /\ eventHistory' = eventHistory
             /\ metrics' = metrics
       /\ lastOp' = "flushReentered" =>
             /\ handed' = handed \o Batch(St)
             /\ queue' = flush(Begin).queue
             /\ timer' = flush(Begin).timer
             /\ processing' = FALSE
             /\ eventHistory' = flush(Begin).eventHistory
             /\ metrics' = flush(Begin).metrics]_vars

\* flush() was called again during a flush that left envelopes in the queue
C28_Witness ==
    /\ lastOp = "flushReentered"
    /\ queue # <<>>
    /\ handed # <<>>

\* the envelopes a flush of the queue q takes, and those it leaves
Taken(q) == SubSeq(q, 1, Min(Len(q), config.maxBatchSize))
Left(q) == SubSeq(q, Min(Len(q), config.maxBatchSize) + 1, Len(q))

\* a flush of the non-empty queue q has run in this step
Flushed(q) ==
    /\ handed' = handed \o Taken(q)
    /\ queue' = Left(q)
    /\ timer'.armed <=> queue' # <<>>
    /\ processing' = FALSE

\* C29: a flush of a non-empty queue, by the timer or by add at the size
\* threshold, hands the min(length, maxBatchSize) oldest envelopes to the
\* processor in queue order and leaves the others queued, and when it ends,
\* also after a listener threw, the timer is armed exactly if envelopes
\* remain; an add below the threshold only queues its envelope.
C29_FlushTakesOldest ==
    [][/\ lastOp' = "timer" => Flushed(queue)
       /\ (lastOp' = "processMessage" /\ config.enableBatching
              /\ Len(accepted') = Len(accepted) + 1) =>
             IF Len(queue) + 1 >= config.maxBatchSize
             THEN Flushed(Append(queue, accepted'[Len(accepted')]))
             ELSE /\ queue' = Append(queue, accepted'[Len(accepted')])
                  /\ handed' = handed
                  /\ timer'.armed]_vars

\* the timer's flush handed over a batch for which an emit threw or a
\* throwing listener was called, an emit failure has been counted, envelopes
\* were left in the queue, and the timer is armed for them
C29_Witness ==
    /\ lastOp = "timer"
    /\ \/ \E i \in 1..Len(emissions) : emissions[i].threw
       \/ \E i \in 1..Len(invoked) : Throws(invoked[i].listener.cb)
    /\ metrics.errors > 0
    /\ queue # <<>>
    /\ timer.armed

\* the queue has one live timeout, the one this.timer refers to, set for the
\* configured interval, or none
OneTimer ==
    IF timer.armed
    THEN /\ Len(timeouts) = 1
         /\ timeouts[1].current
         /\ timeouts[1].interval = timer.interval
         /\ timer.interval = config.batchInterval
    ELSE timeouts = <<>>

\* a configure call that changes batchInterval while the timer is armed
\* replaces the timeout by one created by updateConfig for the new interval;
\* any other configure call leaves the timer and the timeouts as they were
Restart ==
    lastOp' = "call" =>
        IF config'.batchInterval # config.batchInterval /\ timer.armed
        THEN /\ timer' = Armed(config'.batchInterval)
             /\ timeouts' = <<Timeout(config'.batchInterval, "updateConfig")>>
        ELSE /\ timer' = timer
             /\ timeouts' = timeouts

\* C30: when configure changes batchInterval while a flush timer is armed,
\* the armed timer is cancelled and exactly one new timer is armed for the
\* new interval, so that the cancelled one never fires; when the interval
\* is unchanged or no timer is armed, configure leaves the timer as it was.
C30_IntervalChangeRestartsTimer == []OneTimer /\ [][Restart]_vars

\* the one live timeout was created by updateConfig for the interval 200
\* while envelopes were queued
C30_Witness ==
    /\ lastOp = "call"
    /\ queue # <<>>
    /\ timeouts = <<Timeout(200, "updateConfig")>>

\* discoveries.get(t).count, 0 when the recorder has no record of t
RecordedCount(ds, t) ==
    IF \E i \in 1..Len(ds) : ds[i].type = t
    THEN ds[CHOOSE i \in 1..Len(ds) : ds[i].type = t].count
    ELSE 0

\* intake has accepted a message although no discovery window was open, the
\* configuration having enableDiscovery set when the turn began
AcceptedOutsideWindow ==
    /\ lastOp' = "processMessage"
    /\ Len(accepted') = Len(accepted) + 1
    /\ config.enableDiscovery
    /\ ~discovery.isDiscovering

\* C31: with enableDiscovery configured true and no discovery window open,
\* every message accepted by intake is recorded by the discovery recorder:
\* its type has a record afterwards and the count of the type has grown by one.
C31_EnabledRecordsAccepted ==
    [][AcceptedOutsideWindow =>
          RecordedCount(discovery'.discoveries, accepted'[Len(accepted')].type)
              = RecordedCount(discovery.discoveries, accepted'[Len(accepted')].type) + 1]_vars

\* the components whose Logger configure is to replace
Components == {"manager", "emitter", "discovery", "queue"}

\* C32: after configure(options) has returned, the dispatcher, the discovery
\* recorder and the batch scheduler hold the new configuration record, and
\* the Logger of each component is bound to that record, so that none of
\* them decides what to log from a record that configure has replaced.
C32_ComponentsUseNewConfig ==
    lastOp = "call" =>
        /\ wiring.emitter.config = config
        /\ wiring.discovery.config = config
        /\ wiring.queue.config = config
        /\ \A c \in Components :
              /\ wiring[c].logger = Logger(config)
              /\ \A l \in DOMAIN levels :
                    shouldLog(wiring[c].logger, l) = shouldLog(Logger(config), l)

\* the emit calls the pipeline made in the last turn, in order
PipelineEmissions(ems) == SelectSeq(ems, LAMBDA e : e.source = "pipeline")

\* the envelope identities of the emit calls ems are those of batch, in order
EmittedInOrder(ems, batch) ==
    /\ Len(ems) = Len(batch)
    /\ \A i \in 1..Len(ems) : ems[i].envelope = batch[i].id

\* when emit e called a listener, the envelope was the newest entry of the
\* history and, with caching enabled, the cached envelope of its type
StoredWhenCalled(e, cfg) ==
    e.called # <<>> =>
        /\ e.newest = e.envelope
        /\ cfg.enableCache => e.cached = e.envelope

\* C33: processBatch handles the envelopes of a batch in batch order, and
\* for each envelope the history append and the cache update come before the
\* emit: whenever a synchronous listener runs for an envelope, the envelope
\* is the newest history entry and, with caching enabled, the cached
\* envelope of its type.
C33_StoredBeforeEmit ==
    [][/\ EmittedInOrder(PipelineEmissions(emissions'),
                         SubSeq(handed', Len(handed) + 1, Len(handed')))
       /\ \A i \in 1..Len(emissions') :
             emissions'[i].source = "pipeline" => StoredWhenCalled(emissions'[i], config)]_vars

\* C40: with enableCache true and cacheSize >= 1, immediately after
\* processBatch has handled an envelope of type T, getCachedEvent(T) returns
\* that envelope, also after configure has lowered cacheSize below the
\* number of cached types.
C40_CachedAfterHandling ==
    (config.enableCache /\ config.cacheSize >= 1) =>
        \A i \in 1..Len(emissions) :
            emissions[i].source = "pipeline" => emissions[i].cached = emissions[i].envelope

\* the number of emit calls of the pipeline that raised
Raised(ems) == Cardinality({i \in 1..Len(ems) : ems[i].source = "pipeline" /\ ems[i].threw})

\* every envelope of the batch has been appended to the history, cached and
\* emitted, in batch order
AllHandled(ems, batch) ==
    /\ EmittedInOrder(ems, batch)
    /\ \A i \in 1..Len(ems) :
          /\ ems[i].newest = ems[i].envelope
          /\ ems[i].cached = ems[i].envelope

\* C34: when handling an envelope of a batch raises an exception, the errors
\* metric grows by exactly one for it, and every later envelope of the same
\* batch is still appended to the history, cached and emitted.
C34_FailureKeepsBatchGoing ==
    [][/\ metrics'.errors = metrics.errors + Raised(emissions')
       /\ AllHandled(PipelineEmissions(emissions'),
                     SubSeq(handed', Len(handed) + 1, Len(handed')))]_vars

\* C34 witness: the timer's flush handled a batch of two envelopes; the emit
\* of the first raised, and the second was stored and emitted after it, the
\* errors metric having counted each raising envelope once.
C34_Witness ==
    /\ lastOp = "timer"
    /\ Len(emissions) = 2
    /\ emissions[1].threw
    /\ emissions[2].newest = emissions[2].envelope
    /\ emissions[2].envelope = emissions[1].envelope + 1
    /\ metrics.errors = Raised(emissions)

\* a payload that is not text, is shorter than two characters, does not
\* start with an object or array opener, cannot be parsed, or parses to a
\* value without a type
Malformed(m) ==
    \/ ~m.isString
    \/ m.len < 2
    \/ (m.first # "{" /\ m.first # "[")
    \/ ~m.parses
    \/ ~m.data.hasType

\* C35: the intake of a malformed payload leaves the queue, the history, the
\* cache, the discovery records and every metrics counter (total, per type,
\* dropped, errors) unchanged.
C35_MalformedChangesNothing ==
    [][(lastOp' = "processMessage" /\ Malformed(received'[1])) =>
          UNCHANGED <<queue, timer, timeouts, eventHistory, eventCache, discovery, metrics,
                      accepted, handed>>]_vars

\* C35 witness: a text that starts with "{" and holds the type literal but
\* does not parse has been taken in while envelopes were queued, a discovery
\* window was open with a record, and events had been counted.
C35_Witness ==
    /\ lastOp = "processMessage"
    /\ received = <<Raw(TRUE, 11, "{", TRUE, FALSE, NoData)>>
    /\ queue # <<>>
    /\ discovery.isDiscovering
    /\ discovery.discoveries # <<>>
    /\ metrics.totalEvents > 0

\* what msg.data of a stored envelope reads now
dataOf(msg) == IF msg.id \in mutated THEN Mutated(msg.data) ELSE msg.data

\* C36: an event envelope is immutable once created: whatever a listener
\* does with the payload it receives, the envelopes in the history and in
\* the cache keep the data they were created with, and every listener of an
\* emission is given the data the envelope was created with.
C36_EnvelopeImmutable ==
    /\ \A i \in 1..Len(eventHistory) :
          dataOf(eventHistory[i]) = accepted[eventHistory[i].id].data
    /\ \A i \in 1..Len(eventCache) :
          dataOf(eventCache[i].msg) = accepted[eventCache[i].msg.id].data
    /\ \A k \in 1..Len(invoked) :
          invoked[k].ref > 0 => invoked[k].data = accepted[invoked[k].ref].data

\* listener is registered, when the step begins, under the type or under a
\* wildcard key that matches it
RegisteredFor(listener, type) == Contains(CollectListeners(events, type), listener)

\* C37: once off(type, cb) has returned, cb is not invoked again for an
\* emission of that type unless it is registered again: a deferred listener
\* turn calls only a listener that is registered for the type of its event
\* when the turn begins.
C37_RemovedListenerNotCalled ==
    [][lastOp' = "runIsolated" =>
          \A k \in 1..Len(invoked') : RegisteredFor(invoked'[k].listener, invoked'[k].type)]_vars

\* the envelope with identity id waits in the queue
Queued(id) == \E i \in 1..Len(queue) : queue[i].id = id

\* the envelope with identity id has been passed to the processor
Handed(id) == \E i \in 1..Len(handed) : handed[i].id = id

\* at most one timeout of the queue is live, and while envelopes wait it is
\* the one this.timer refers to
TimerWhileQueued ==
    /\ Len(timeouts) <= 1
    /\ queue # <<>> => (timer.armed /\ Len(timeouts) = 1 /\ timeouts[1].current)

\* an envelope that was created and does not wait in the queue has been
\* handed to the processor or discarded by clear(); envelope identities are
\* not reused, so an envelope that has left the queue does not come back
NoneLost ==
    \A id \in 1..(nextId - 1) : Queued(id) \/ Handed(id) \/ id \in discarded

\* C38: with maxBatchSize >= 1, between operations at most one flush timer
\* is armed and one is armed whenever the queue is non-empty, so that every
\* envelope added to the queue is eventually handed to the processing
\* callback unless clear() discards it first, for every interleaving of
\* add, timer firing, configure and clear.
C38_QueueDrains ==
    /\ []TimerWhileQueued
    /\ []NoneLost
    /\ \A id \in 1..MaxMessages : []<>(~Queued(id))

\* C38 witness: the timer has fired and handed over the oldest envelope
\* while a later one still waits, for which a timer is armed again.
C38_Witness ==
    /\ lastOp = "timer"
    /\ Handed(1)
    /\ Queued(2)
    /\ timer.armed

\* C39: once a configure call that blacklists type T (or sets a non-empty
\* whitelist without T) has returned, the pipeline calls no listener for an
\* event of type T and appends no envelope of type T to the history, also
\* for envelopes that were accepted and queued before the call: no step
\* hands over an envelope, or calls a listener for an event, whose type the
\* configuration in force when the step begins filters out.
C39_FilteredNeverDelivered ==
    [][/\ \A j \in (Len(handed) + 1)..Len(handed') : ~Filtered(config, handed'[j].type)
       /\ \A k \in 1..Len(invoked') : ~Filtered(config, invoked'[k].type)]_vars
====
